---- MODULE Spec2Model ----
(***************************************************************************)
(* The editing state machine of the JSON table editor: the App component's *)
(* document state (rows, Column Set, Schema, sort state), the undo/redo    *)
(* history that wraps the rows, the persisted local-storage entry and the  *)
(* handlers that change them.                                              *)
(*                                                                         *)
(* The hook use-undo-redo is imported by App but its file is not part of   *)
(* the sources; its four operations (setData, reset, undo, redo) are       *)
(* written here from section 4.3 of the specification.                     *)
(***************************************************************************)
EXTENDS Integers, Sequences, FiniteSets, TLC

VARIABLES
    data,        \* present rows of the history (useUndoRedo's first result)
    past,        \* earlier row snapshots, oldest first
    future,      \* undone row snapshots, next redo first
    columns,     \* Column Set: ordered column names
    schema,      \* column name -> type tag
    sortConfig,  \* NoSort or [column, direction]
    storage,     \* local-storage entry "jte-data": NoEntry or a JSON text
    message,     \* kind of the user-visible message the last event raised
    focusedCell, \* the grid's focus: NoFocus or [row, col], both from 0
    editingCell, \* the cell under inline edit: NoEdit or [row, col name]
    cellInput,   \* the inline editor's input and its two refs, or NoInput
    prevented,   \* the last key event had its platform default suppressed
    nested,      \* the nested overlay and its own grid, or NoModal
    footer,      \* QuickAddFooter's state: values, types and menuState
    storageOk,   \* local-storage writes succeed
    crashed,     \* an uncaught error has unmounted the application
    inflight,    \* reads started and not completed: [route, text, granted]
    lastEvent,   \* name of the last handled event
    lastArg,     \* what the last event was given
    trail,       \* the last events and whether each changed the rows
    track,       \* earlier rows and histories the properties compare with
    steps        \* number of events handled so far

vars == <<data, past, future, columns, schema, sortConfig, storage, message,
          focusedCell, editingCell, cellInput, prevented, nested, footer,
          storageOk, crashed, inflight, lastEvent, lastArg, trail, track,
          steps>>

(***************************************************************************)
(* Bounds of the model.                                                    *)
(***************************************************************************)
\* Events explored from the initial state.
MaxSteps == 3
\* Events explored by the specification of the row operations alone.
MaxEdits == 5
\* Events explored in the grid, and around reads that complete later.
MaxKeys == 4

\* Events explored with the focus effects of the overlay run one at a time.
MaxClamp == 4
\* Events explored in the footer and the overlay opened from it.
MaxFooter == 5
\* Nesting depth of the objects given to flattenObject.
MaxDepth == 1
\* Events explored around the nested overlays.
MaxNested == 6
\* Rows a document may grow to through quick-add.
MaxRows == 3
\* Depth of past. App passes 100; the model explores a small depth so that
\* eviction of the oldest snapshot happens within MaxSteps.
HistoryLimit == 2

(***************************************************************************)
(* Strings are sequences of one-character strings, so that trim, includes  *)
(* and the default sort order are computed as the code computes them.      *)
(***************************************************************************)
CharCode(ch) ==
    CASE ch = " " -> 32
      [] ch = "," -> 44
      [] ch = "." -> 46
      [] ch = "0" -> 48
      [] ch = "1" -> 49
      [] ch = "2" -> 50
      [] ch = "T" -> 84
      [] ch = "[" -> 91
      [] ch = "]" -> 93
      [] ch = "a" -> 97
      [] ch = "b" -> 98
      [] ch = "c" -> 99
      [] ch = "e" -> 101
      [] ch = "f" -> 102
      [] ch = "j" -> 106
      [] ch = "l" -> 108
      [] ch = "o" -> 111
      [] ch = "r" -> 114
      [] ch = "s" -> 115
      [] ch = "t" -> 116
      [] ch = "u" -> 117
      [] ch = "x" -> 120

\* s < t in the order of JavaScript's string comparison (by code unit).
RECURSIVE StrLess(_, _)
StrLess(s, t) ==
    IF t = <<>> THEN FALSE
    ELSE IF s = <<>> THEN TRUE
    ELSE IF Head(s) = Head(t) THEN StrLess(Tail(s), Tail(t))
    ELSE CharCode(Head(s)) < CharCode(Head(t))

RECURSIVE TrimStart(_)
TrimStart(s) == IF s # <<>> /\ Head(s) = " " THEN TrimStart(Tail(s)) ELSE s

RECURSIVE TrimEnd(_)
TrimEnd(s) ==
    IF s # <<>> /\ s[Len(s)] = " " THEN TrimEnd(SubSeq(s, 1, Len(s) - 1)) ELSE s

\* String.prototype.trim
trim(s) == TrimEnd(TrimStart(s))

\* name.includes(" ")
\* a check of the first character only
includesSpaceLeading(s) == s # <<>> /\ Head(s) = " "

includesSpace(s) == \E i \in DOMAIN s : s[i] = " "

\* array.includes(x)
includes(seq, x) == \E i \in DOMAIN seq : seq[i] = x

NA == <<"a">>
NB == <<"b">>
NC == <<"c">>

(***************************************************************************)
(* Cell values. t is the runtime shape; v indexes the value among those of *)
(* its shape (the number itself, 1 for true, an index into the strings and *)
(* lists below). An array of objects carries its rows and a plain object   *)
(* its entries [key, value] in property order. A key a row does not have   *)
(* reads as undefined.                                                     *)
(***************************************************************************)
Null == [t |-> "null", v |-> 0]
Num(n) == [t |-> "number", v |-> n]
Str(i) == [t |-> "string", v |-> i]
Bool(b) == [t |-> "boolean", v |-> IF b THEN 1 ELSE 0]
List(i) == [t |-> "list", v |-> i]
\* an array whose elements are the objects rows
ObjArr(rows) == [t |-> "objects", v |-> rows]
\* a plain object with the given entries
Obj(entries) == [t |-> "object", v |-> entries]
\* the object the arrays of the datasets hold
Item == <<"a">> :> Num(1)
\* an array of n objects; Objs(0) is the empty array
Objs(n) == ObjArr([i \in 1..n |-> Item])

\* The strings and lists the model's values stand for.
StrChars(i) ==
    CASE i = 0 -> <<>>
      [] i = 1 -> <<"x">>
      [] i = 2 -> <<"a">>
      [] i = 3 -> <<"b">>
      [] i = 4 -> <<"1">>
      [] i = 5 -> <<"1", ",", "x">>
      [] i = 7 -> <<"/">>
      [] i = 8 -> <<"n", "e", "w", "_", "k", "e", "y">>
      [] i = 9 -> <<"a", "_", "1">>
      [] OTHER -> <<"T", "r", "u", "e">>
\* the string value whose characters are chars
StrOf(chars) == Str(CHOOSE i \in 0..9 : StrChars(i) = chars)
\* the elements of the lists
ListItems(i) ==
    CASE i = 1 -> <<Num(1), Num(2)>>
      [] i = 2 -> <<Num(1)>>
      [] i = 3 -> <<Str(1)>>
      [] i = 4 -> <<Num(1), Str(1)>>
      [] i = 5 -> <<Bool(TRUE)>>
      [] OTHER -> <<Str(2)>>
\* String(list): the elements joined by ","
ListChars(i) ==
    CASE i = 1 -> <<"1", ",", "2">>
      [] i = 2 -> <<"1">>
      [] i = 3 -> <<"x">>
      [] i = 4 -> <<"1", ",", "x">>
      [] i = 5 -> <<"t", "r", "u", "e">>
      [] OTHER -> <<"a">>
\* the array holding items: a list, or the empty array
ListOf(items) ==
    IF items = <<>> THEN Objs(0)
    ELSE List(CHOOSE i \in 1..6 : ListItems(i) = items)

\* An element of a parsed array that is null instead of an object. It has no
\* keys; the marker key below is not a name (names are made of characters).
NullRow == <<"null">> :> Null

hasNullRow(rows) == \E i \in DOMAIN rows : rows[i] = NullRow

isPrimitive(val) == val.t \in {"null", "number", "string", "boolean"}

\* row[col] === val. An array or object handed to a handler is always a
\* freshly built one (parseArrayInput, the nested overlay's copy), so it is
\* never the stored reference.
strictEquals(row, col, val) ==
    /\ col \in DOMAIN row
    /\ isPrimitive(val)
    /\ row[col] = val

\* row[col] is null or undefined
isNullish(row, col) == col \notin DOMAIN row \/ row[col].t = "null"

Keys(rows) == UNION {DOMAIN rows[i] : i \in DOMAIN rows}

Min(S) == CHOOSE x \in S : \A y \in S : x <= y

\* Array.prototype.indexOf, from 0, -1 when x is not in seq
indexOf(seq, x) ==
    IF includes(seq, x) THEN Min({i \in DOMAIN seq : seq[i] = x}) - 1 ELSE -1

\* row with key k set to val ({ ...row, [k]: val })
WithKey(row, k, val) ==
    [c \in DOMAIN row \cup {k} |-> IF c = k THEN val ELSE row[c]]

\* a removal that leaves the key in the row, holding null
WithoutKeyNulled(row, k) == [c \in DOMAIN row |-> IF c = k THEN Null ELSE row[c]]

\* row without key k (delete row[k])
WithoutKey(row, k) == [c \in DOMAIN row \ {k} |-> row[c]]

(***************************************************************************)
(* lib/data-utils.ts                                                       *)
(***************************************************************************)
\* Array.from(set).sort(): ascending in string order
RECURSIVE SortNames(_)
SortNames(S) ==
    IF S = {} THEN <<>>
    ELSE LET m == CHOOSE x \in S : \A y \in S \ {x} : StrLess(x, y)
         IN  <<m>> \o SortNames(S \ {m})

inferColumns(rows) == IF Len(rows) = 0 THEN <<>> ELSE SortNames(Keys(rows))

inferType(val) ==
    CASE val.t \in {"list", "objects"} -> "list"
      [] val.t = "object" -> "object"
      [] val.t = "boolean" -> "boolean"
      [] val.t = "number" -> "number"
      [] OTHER -> "text"

inferSchema(rows) ==
    [k \in Keys(rows) |->
        LET present == {i \in DOMAIN rows : ~isNullish(rows[i], k)}
        IN  IF present = {} THEN "text" ELSE inferType(rows[Min(present)][k])]

\* String.prototype.toLowerCase
LowerChar(ch) ==
    CASE ch = "T" -> "t"
      [] ch = "R" -> "r"
      [] ch = "U" -> "u"
      [] ch = "E" -> "e"
      [] OTHER -> ch

toLowerCase(s) == [i \in DOMAIN s |-> LowerChar(s[i])]

IsDigit(ch) == ch \in {"0", "1", "2"}

DigitValue(ch) == CASE ch = "0" -> 0 [] ch = "1" -> 1 [] OTHER -> 2

RECURSIVE Decimal(_)
Decimal(s) ==
    IF s = <<>> THEN 0
    ELSE 10 * Decimal(SubSeq(s, 1, Len(s) - 1)) + DigitValue(s[Len(s)])

\* !isNaN(Number(s)): blank text is 0, a digit string its value
isNumeric(s) == \A i \in DOMAIN trim(s) : IsDigit(trim(s)[i])

\* Number(s) for a numeric s
Number(s) == Decimal(trim(s))

\* input.split(',')
RECURSIVE split(_)
split(s) ==
    IF \A i \in DOMAIN s : s[i] # ","
    THEN <<s>>
    ELSE LET i == Min({j \in DOMAIN s : s[j] = ","})
         IN  <<SubSeq(s, 1, i - 1)>> \o split(SubSeq(s, i + 1, Len(s)))

\* the callback parseArrayInput maps over the segments
parseSegment(segment) ==
    LET trimmed == trim(segment)
    IN  IF trimmed = <<>> THEN Str(0)
        ELSE IF isNumeric(trimmed) THEN Num(Number(trimmed))
        ELSE IF toLowerCase(trimmed) = <<"t", "r", "u", "e">> THEN Bool(TRUE)
        ELSE IF toLowerCase(trimmed) = <<"f", "a", "l", "s", "e">>
        THEN Bool(FALSE)
        ELSE StrOf(trimmed)

RECURSIVE dropEmpty(_)
dropEmpty(items) ==
    IF items = <<>> THEN <<>>
    ELSE IF Head(items) = Str(0) THEN dropEmpty(Tail(items))
    ELSE <<Head(items)>> \o dropEmpty(Tail(items))

\* parseArrayInput
parseArrayInput(input) ==
    LET segments == split(input)
    IN  ListOf(dropEmpty([i \in DOMAIN segments |-> parseSegment(segments[i])]))

(***************************************************************************)
(* JSON texts. A text is malformed, empty, or the serialization of a       *)
(* top-level value; only a top-level array carries rows.                   *)
(***************************************************************************)
TextArray(rows) == [kind |-> "array", rows |-> rows]
TextObject == [kind |-> "object", rows |-> <<>>]
TextMalformed == [kind |-> "malformed", rows |-> <<>>]
TextEmpty == [kind |-> "empty", rows |-> <<>>]

\* JSON.stringify(rows)
stringify(rows) == TextArray(rows)

\* a parse that accepts any well-formed JSON value
safeParseJSONAnyValue(text) ==
    IF text.kind \in {"array", "object"} THEN [ok |-> TRUE, rows |-> text.rows]
    ELSE [ok |-> FALSE, rows |-> <<>>]

\* safeParseJSON: the parsed array, or null (ok = FALSE) when JSON.parse
\* throws or the top-level value is not an array.
safeParseJSON(text) ==
    IF text.kind = "array" THEN [ok |-> TRUE, rows |-> text.rows]
    ELSE [ok |-> FALSE, rows |-> <<>>]

NoEntry == [kind |-> "none", rows |-> <<>>]

\* loadInitialData
loadInitialData(saved) ==
    IF saved = NoEntry \/ saved.kind = "empty" THEN <<>>
    ELSE LET parsed == safeParseJSON(saved)
         IN  IF parsed.ok THEN parsed.rows ELSE <<>>

\* an effect that writes the rows even when there are none
persistWritesEmptyArray(rows) == stringify(rows)

\* the persistence effect that follows every change of data
persist(rows) == IF Len(rows) > 0 THEN stringify(rows) ELSE NoEntry

(***************************************************************************)
(* The undo/redo hook, on a history h = [past, present, future].           *)
(***************************************************************************)
\* structural equality of two row snapshots
deepEqual(x, y) == x = y

\* past with the present pushed, the oldest entries evicted beyond the limit
pushPast(p, present, limit) ==
    LET q == Append(p, present)
    IN  IF Len(q) > limit THEN SubSeq(q, Len(q) - limit + 1, Len(q)) ELSE q

\* a limit ten times the one App hands over
limitTenfold == 10 * HistoryLimit

\* the limit App hands to the hook
historyLimit == HistoryLimit

\* a set that pushes without comparing next with the present
setDataAlwaysPushes(h, next) ==
    [past |-> pushPast(h.past, h.present, historyLimit),
     present |-> next,
     future |-> <<>>]

\* a set that keeps the undone snapshots
setDataKeepsFuture(h, next) ==
    IF deepEqual(next, h.present) THEN h
    ELSE [past |-> pushPast(h.past, h.present, historyLimit),
          present |-> next,
          future |-> h.future]

setData(h, next) ==
    IF deepEqual(next, h.present) THEN h
    ELSE [past |-> pushPast(h.past, h.present, historyLimit),
          present |-> next,
          future |-> <<>>]

reset(value) == [past |-> <<>>, present |-> value, future |-> <<>>]

undo(h) ==
    IF h.past = <<>> THEN h
    ELSE [past |-> SubSeq(h.past, 1, Len(h.past) - 1),
          present |-> h.past[Len(h.past)],
          future |-> <<h.present>> \o h.future]

redo(h) ==
    IF h.future = <<>> THEN h
    ELSE [past |-> Append(h.past, h.present),
          present |-> Head(h.future),
          future |-> Tail(h.future)]

canUndo(h) == Len(h.past) > 0
canRedo(h) == Len(h.future) > 0

(***************************************************************************)
(* App state as one record, and the handlers as functions on it.           *)
(***************************************************************************)
NoSort == [column |-> <<>>, direction |-> "none"]

NoFocus == [row |-> -1, col |-> -1]
NoEdit == [row |-> -1, col |-> <<>>]
NoInput ==
    [row |-> -1, col |-> <<>>, isSaving |-> FALSE, isCanceling |-> FALSE,
     saves |-> 0]
\* An overlay: the cell it was opened on, its copy of the cell's value, and
\* the focus and the edited cell of its own grid. inner is the overlay opened
\* from this overlay's grid. onSave tells that the footer opened the overlay.
\* due names the dependencies of the grid's focus effects that changed in
\* the last render, while the effects have not run yet; focusId is the
\* identity of the focus object, which every setFocusedCell renews.
NoInner ==
    [rowIdx |-> -1, col |-> <<>>, localData |-> Null, focus |-> NoFocus,
     editingCell |-> NoEdit]
NoModal ==
    [rowIdx |-> -1, col |-> <<>>, localData |-> Null, focus |-> NoFocus,
     editingCell |-> NoEdit, inner |-> NoInner, onSave |-> FALSE,
     due |-> [length |-> FALSE, focus |-> FALSE], focusId |-> 0]
\* The footer's state. values maps a column to what is pending for it: the
\* text typed into its input, or the data an overlay saved for it. types
\* maps a column to the type a slash command chose; menuState is the column
\* whose slash menu is open, <<>> when none is.
NoMenu == <<>>
NoFooter == [values |-> <<>>, types |-> <<>>, menuState |-> NoMenu]
Typed(text) == [text |-> text, data |-> <<>>]
Saved(val) == [text |-> <<>>, data |-> <<val>>]

\* The state an event's handler starts from. An input whose edit has ended
\* is gone unless the event is that input's own blur.
App ==
    [past |-> past, present |-> data, future |-> future, columns |-> columns,
     schema |-> schema, sortConfig |-> sortConfig, message |-> "none",
     focusedCell |-> focusedCell, editingCell |-> editingCell,
     cellInput |-> IF /\ editingCell = NoEdit
                      /\ nested.editingCell = NoEdit
                      /\ nested.inner.editingCell = NoEdit
                   THEN NoInput ELSE cellInput,
     prevented |-> FALSE, nested |-> nested, footer |-> footer,
     inflight |-> inflight, refocus |-> FALSE]

hist(s) == [past |-> s.past, present |-> s.present, future |-> s.future]

\* s with its history replaced by h
withHist(s, h) ==
    [s EXCEPT !.past = h.past, !.present = h.present, !.future = h.future]

notify(s, kind) == [s EXCEPT !.message = kind]

\* updateCell's updater
updateCellUpdater(prev, rowIdx, col, val) ==
    IF strictEquals(prev[rowIdx], col, val) THEN prev
    ELSE [prev EXCEPT ![rowIdx] = WithKey(prev[rowIdx], col, val)]

\* an update that writes the cell into the present rows in place
updateCellInPlace(s, rowIdx, col, val) ==
    [s EXCEPT !.present = updateCellUpdater(s.present, rowIdx, col, val)]

\* prev[rowIdx][col] throws a TypeError when the rows have no row rowIdx
updateCell(s, rowIdx, col, val) ==
    IF rowIdx \notin DOMAIN s.present THEN notify(s, "threw")
    ELSE notify(withHist(s, setData(hist(s),
                                    updateCellUpdater(s.present, rowIdx, col,
                                                      val))),
                "none")

\* a removal that takes the row after the one asked for when there is one
spliceNext(rows, rowIdx) ==
    LET at == IF rowIdx < Len(rows) THEN rowIdx + 1 ELSE rowIdx
    IN  SubSeq(rows, 1, at - 1) \o SubSeq(rows, at + 1, Len(rows))

\* newData.splice(rowIdx, 1), rowIdx counted from 1: an index past the end
\* removes nothing, the index before the first (-1 in the code) counts from
\* the end and removes the last row
splice1(rows, rowIdx) ==
    IF rowIdx \in DOMAIN rows
    THEN SubSeq(rows, 1, rowIdx - 1) \o SubSeq(rows, rowIdx + 1, Len(rows))
    ELSE IF rowIdx = 0 /\ rows # <<>> THEN SubSeq(rows, 1, Len(rows) - 1)
    ELSE rows

deleteRow(s, rowIdx) ==
    notify(withHist(s, setData(hist(s), splice1(s.present, rowIdx))),
           "row-deleted")

addRow(s, row) ==
    notify(withHist(s, setData(hist(s), Append(s.present, row))), "none")

handleUndo(s) ==
    IF ~canUndo(hist(s)) THEN s
    ELSE notify(withHist(s, undo(hist(s))), "undone")

\* a redo guarded by canUndo
onRedoGuardedByCanUndo(s) ==
    IF canUndo(hist(s)) THEN notify(withHist(s, redo(hist(s))), "redone")
    ELSE s

onRedo(s) ==
    IF canRedo(hist(s)) THEN notify(withHist(s, redo(hist(s))), "redone")
    ELSE s

\* an import that installs the parsed rows with setData
applyImportThroughSetData(s, text) ==
    LET parsed == safeParseJSON(text)
    IN  IF parsed.ok
        THEN [withHist(s, setData(hist(s), parsed.rows)) EXCEPT
                 !.columns = inferColumns(parsed.rows),
                 !.schema = inferSchema(parsed.rows),
                 !.sortConfig = NoSort,
                 !.message = "imported"]
        ELSE notify(s, "invalid-json")

\* an import that appends the parsed rows to the rows it finds
applyImportAppends(s, text) ==
    LET parsed == safeParseJSON(text)
        rows == s.present \o parsed.rows
    IN  IF parsed.ok
        THEN [withHist(s, reset(rows)) EXCEPT
                 !.columns = inferColumns(rows),
                 !.schema = inferSchema(rows),
                 !.sortConfig = NoSort,
                 !.message = "imported"]
        ELSE notify(s, "invalid-json")

\* The body every import route runs on the parsed text. Object.keys(row) of
\* inferColumns throws a TypeError for a null element, after reset(parsed)
\* was called: the rows are replaced and nothing else is. The render that
\* follows reads row[col] of every row for every column and throws with it
\* ("threw") unless there is no column.
applyImport(s, text) ==
    LET parsed == safeParseJSON(text)
    IN  IF parsed.ok
        THEN IF hasNullRow(parsed.rows)
             THEN notify(withHist(s, reset(parsed.rows)),
                         IF s.columns = <<>> THEN "import-threw" ELSE "threw")
             ELSE [withHist(s, reset(parsed.rows)) EXCEPT
                      !.columns = inferColumns(parsed.rows),
                      !.schema = inferSchema(parsed.rows),
                      !.sortConfig = NoSort,
                      !.message = "imported"]
        ELSE notify(s, "invalid-json")

\* isValidColumnName: "ok" or the error it reports
isValidColumnName(name, existingCols) ==
    LET trimmed == trim(name)
    IN  IF trimmed = <<>> THEN "name-empty"
        ELSE IF includesSpace(trimmed) THEN "name-spaces"
        ELSE IF includes(existingCols, trimmed) THEN "name-duplicate"
        ELSE "ok"

handleAddColumn(s, name, type, defaultValue) ==
    LET validation == isValidColumnName(name, s.columns)
        h == setData(hist(s),
                     [i \in DOMAIN s.present |->
                         WithKey(s.present[i], name, defaultValue)])
    IN  IF validation # "ok" THEN notify(s, validation)
        ELSE [withHist(s, h) EXCEPT
                 !.columns = Append(s.columns, name),
                 !.schema = [k \in DOMAIN s.schema \cup {name} |->
                                IF k = name THEN type ELSE s.schema[k]],
                 !.message = "column-added"]

\* columns.filter(c => c !== colName)
RECURSIVE filterOut(_, _)
filterOut(seq, x) ==
    IF seq = <<>> THEN <<>>
    ELSE IF Head(seq) = x THEN filterOut(Tail(seq), x)
    ELSE <<Head(seq)>> \o filterOut(Tail(seq), x)

\* a delete that replaces the rows without going through the history
handleDeleteColumnOutsideHistory(s, colName) ==
    [s EXCEPT
        !.present = [i \in DOMAIN s.present |->
                        WithoutKey(s.present[i], colName)],
        !.schema = [k \in DOMAIN s.schema \ {colName} |-> s.schema[k]],
        !.columns = filterOut(s.columns, colName),
        !.message = "column-deleted"]

handleDeleteColumn(s, colName) ==
    LET newData == [i \in DOMAIN s.present |-> WithoutKey(s.present[i], colName)]
    IN  [withHist(s, setData(hist(s), newData)) EXCEPT
            !.schema = [k \in DOMAIN s.schema \ {colName} |-> s.schema[k]],
            !.columns = filterOut(s.columns, colName),
            !.message = "column-deleted"]

\* the row handleRenameColumn builds from row
renameKey(row, oldName, newName) ==
    IF oldName \in DOMAIN row
    THEN WithKey(WithoutKey(row, oldName), newName, row[oldName])
    ELSE row

\* a rename that leaves the old key in the schema
handleRenameColumnKeepsOldKey(s, oldName, newName) ==
    LET validation == isValidColumnName(newName, s.columns)
        type == IF oldName \in DOMAIN s.schema THEN s.schema[oldName] ELSE "text"
        newData == [i \in DOMAIN s.present |->
                       renameKey(s.present[i], oldName, newName)]
    IN  IF validation # "ok" THEN notify(s, validation)
        ELSE [withHist(s, setData(hist(s), newData)) EXCEPT
                 !.schema = [k \in DOMAIN s.schema \cup {newName} |->
                                IF k = newName THEN type ELSE s.schema[k]],
                 !.columns = [i \in DOMAIN s.columns |->
                                 IF s.columns[i] = oldName THEN newName
                                 ELSE s.columns[i]],
                 !.message = "column-renamed"]

handleRenameColumn(s, oldName, newName) ==
    LET validation == isValidColumnName(newName, s.columns)
        type == IF oldName \in DOMAIN s.schema THEN s.schema[oldName] ELSE "text"
        newData == [i \in DOMAIN s.present |->
                       renameKey(s.present[i], oldName, newName)]
    IN  IF validation # "ok" THEN notify(s, validation)
        ELSE [withHist(s, setData(hist(s), newData)) EXCEPT
                 !.schema = [k \in (DOMAIN s.schema \ {oldName}) \cup {newName} |->
                                IF k = newName THEN type ELSE s.schema[k]],
                 !.columns = [i \in DOMAIN s.columns |->
                                 IF s.columns[i] = oldName THEN newName
                                 ELSE s.columns[i]],
                 !.message = "column-renamed"]

handleReorderColumns(s, newOrder) ==
    [s EXCEPT !.columns = newOrder, !.message = "columns-reordered"]

\* AddColumnForm.handleSubmit: the error it shows, or the call of onAdd
addColumnFormSubmit(typed, type, defaultChoice, existingColumns) ==
    LET trimmedName == trim(typed)
        finalDefaultValue ==
            IF type = "boolean" /\ defaultChoice = "true" THEN Bool(TRUE)
            ELSE IF type = "boolean" /\ defaultChoice = "false" THEN Bool(FALSE)
            ELSE Null
        call == [error |-> "none", name |-> trimmedName, type |-> type,
                 defaultValue |-> finalDefaultValue]
    IN  IF trimmedName = <<>> THEN [call EXCEPT !.error = "form-name-empty"]
        ELSE IF includesSpace(trimmedName)
        THEN [call EXCEPT !.error = "form-name-spaces"]
        ELSE IF includes(existingColumns, trimmedName)
        THEN [call EXCEPT !.error = "form-name-exists"]
        ELSE call

\* RenameColumnForm.handleSubmit: the error it shows, or the call of onRename
renameColumnFormSubmit(initialName, typed, existingColumns) ==
    LET trimmedName == trim(typed)
        call == [error |-> "none", name |-> trimmedName]
    IN  IF trimmedName = <<>> THEN [call EXCEPT !.error = "form-name-empty"]
        ELSE IF trimmedName # initialName /\ includesSpace(trimmedName)
        THEN [call EXCEPT !.error = "form-name-spaces"]
        ELSE IF trimmedName # initialName /\ includes(existingColumns, trimmedName)
        THEN [call EXCEPT !.error = "form-name-exists"]
        ELSE call

\* the add-column popover, submitted
submitAddColumn(s, typed, type, defaultChoice) ==
    LET f == addColumnFormSubmit(typed, type, defaultChoice, s.columns)
    IN  IF f.error # "none" THEN notify(s, f.error)
        ELSE handleAddColumn(s, f.name, f.type, f.defaultValue)

\* the rename form of column oldName, submitted
submitRenameColumn(s, oldName, typed) ==
    LET f == renameColumnFormSubmit(oldName, typed, s.columns)
    IN  IF f.error # "none" THEN notify(s, f.error)
        ELSE handleRenameColumn(s, oldName, f.name)

\* handleClear, with the user's answer to the confirmation
handleClear(s, confirmed) ==
    IF confirmed
    THEN [withHist(s, setData(hist(s), <<>>)) EXCEPT
             !.columns = <<>>,
             !.schema = <<>>,
             !.sortConfig = NoSort,
             !.message = "workspace-cleared"]
    ELSE s

\* useKeyboardShortcuts' onClear, with the user's answer to the confirmation
onClear(s, confirmed) ==
    IF Len(s.present) > 0 /\ confirmed
    THEN withHist(s, setData(hist(s), <<>>))
    ELSE s

\* handlePaste: the clipboard read is denied, or its text is imported
handlePaste(s, granted, text) ==
    LET imported == applyImport(s, text)
    IN  IF ~granted THEN notify(s, "clipboard-denied")
        ELSE IF imported.message = "import-threw"
        THEN notify(imported, "clipboard-denied")
        ELSE imported

\* The part of handleFileUpload, handleDrop and handlePaste that runs before
\* the read: a read of text is started and nothing else changes.
startRead(s, route, granted, text) ==
    [s EXCEPT !.inflight =
        Append(@, [route |-> route, text |-> text, granted |-> granted])]

\* seq without its element at index i
removeAt(seq, i) == SubSeq(seq, 1, i - 1) \o SubSeq(seq, i + 1, Len(seq))

\* The part that runs when the read at index i completes: reader.onload of
\* handleFileUpload and handleDrop, handlePaste after its await.
resumeRead(s, i) ==
    LET r == s.inflight[i]
        rest == [s EXCEPT !.inflight = removeAt(@, i)]
    IN  IF r.route = "paste" THEN handlePaste(rest, r.granted, r.text)
        ELSE applyImport(rest, r.text)

\* handleGlobalPaste
handleGlobalPaste(s, targetIsInput, text) ==
    IF targetIsInput \/ text.kind = "empty" THEN s ELSE applyImport(s, text)

\* handleLoadDebugData
handleLoadDebugData(s, debugData) ==
    [withHist(s, reset(debugData)) EXCEPT
        !.columns = inferColumns(debugData),
        !.schema = inferSchema(debugData),
        !.sortConfig = NoSort,
        !.message = "imported"]

(***************************************************************************)
(* handleSort                                                              *)
(***************************************************************************)
\* String(n) for the numbers of the model
DigitChar(n) == CASE n = 0 -> "0" [] n = 1 -> "1" [] OTHER -> "2"

\* String(val).toLowerCase() of a plain object
ObjectChars ==
    <<"[", "o", "b", "j", "e", "c", "t", " ", "o", "b", "j", "e", "c", "t", "]">>

\* String(val).toLowerCase() of an array of n objects
RECURSIVE joinObjects(_)
joinObjects(n) ==
    IF n = 0 THEN <<>>
    ELSE IF n = 1 THEN ObjectChars
    ELSE joinObjects(n - 1) \o <<",">> \o ObjectChars

\* String(val).toLowerCase()
lowerString(val) ==
    CASE val.t = "number" -> <<DigitChar(val.v)>>
      [] val.t = "string" -> toLowerCase(StrChars(val.v))
      [] val.t = "boolean" -> IF val.v = 1 THEN <<"t", "r", "u", "e">>
                              ELSE <<"f", "a", "l", "s", "e">>
      [] val.t = "list" -> ListChars(val.v)
      [] val.t = "object" -> ObjectChars
      [] val.t = "objects" -> joinObjects(Len(val.v))
      [] OTHER -> <<>>

\* a comparator that puts the rows without a value first when descending
compareRowsNullsByDirection(a, b, col, direction) ==
    IF \/ (col \notin DOMAIN a /\ col \notin DOMAIN b)
       \/ (col \in DOMAIN a /\ col \in DOMAIN b /\ isPrimitive(a[col])
           /\ a[col] = b[col])
    THEN 0
    ELSE IF isNullish(a, col) THEN (IF direction = "asc" THEN 1 ELSE -1)
    ELSE IF isNullish(b, col) THEN (IF direction = "asc" THEN -1 ELSE 1)
    ELSE IF StrLess(lowerString(a[col]), lowerString(b[col]))
    THEN (IF direction = "asc" THEN -1 ELSE 1)
    ELSE IF StrLess(lowerString(b[col]), lowerString(a[col]))
    THEN (IF direction = "asc" THEN 1 ELSE -1)
    ELSE 0

\* the comparator handleSort passes to sort
compareRows(a, b, col, direction) ==
    IF \/ (col \notin DOMAIN a /\ col \notin DOMAIN b)
       \/ (col \in DOMAIN a /\ col \in DOMAIN b /\ isPrimitive(a[col])
           /\ a[col] = b[col])
    THEN 0
    ELSE IF isNullish(a, col) THEN 1
    ELSE IF isNullish(b, col) THEN -1
    ELSE IF StrLess(lowerString(a[col]), lowerString(b[col]))
    THEN (IF direction = "asc" THEN -1 ELSE 1)
    ELSE IF StrLess(lowerString(b[col]), lowerString(a[col]))
    THEN (IF direction = "asc" THEN 1 ELSE -1)
    ELSE 0

\* x inserted into sorted behind every element that does not compare greater
RECURSIVE insertRow(_, _, _, _)
insertRow(sorted, x, col, direction) ==
    IF sorted # <<>> /\ compareRows(sorted[Len(sorted)], x, col, direction) > 0
    THEN Append(insertRow(SubSeq(sorted, 1, Len(sorted) - 1), x, col, direction),
                sorted[Len(sorted)])
    ELSE Append(sorted, x)

\* the place a binary insertion finds for x among sorted[left+1..right],
\* asking the comparator for (x, element)
RECURSIVE binarySearch(_, _, _, _, _, _)
binarySearch(sorted, x, left, right, col, direction) ==
    IF left >= right THEN left
    ELSE LET mid == left + ((right - left) \div 2)
         IN  IF compareRows(x, sorted[mid + 1], col, direction) < 0
             THEN binarySearch(sorted, x, left, mid, col, direction)
             ELSE binarySearch(sorted, x, mid + 1, right, col, direction)

\* The order sort() gives is fixed by the language only for a consistent
\* comparator; this one answers 1 both ways for a null against a missing
\* key, so the result depends on which arguments the engine asks about.
\* The engines are the two insertion sorts used for short arrays: "linear"
\* asks (element, x) from the right, "binary" asks (x, element).
Engines == {"linear", "binary"}

\* [...prev].sort(comparator): a stable insertion sort
RECURSIVE sortRows(_, _, _, _)
sortRows(rows, col, direction, engine) ==
    IF rows = <<>> THEN <<>>
    ELSE LET sorted == sortRows(SubSeq(rows, 1, Len(rows) - 1), col, direction,
                                engine)
             x == rows[Len(rows)]
             k == binarySearch(sorted, x, 0, Len(sorted), col, direction)
         IN  IF engine = "linear" THEN insertRow(sorted, x, col, direction)
             ELSE SubSeq(sorted, 1, k) \o <<x>>
                  \o SubSeq(sorted, k + 1, Len(sorted))

handleSort(s, col, engine) ==
    LET direction ==
            IF s.sortConfig # NoSort /\ s.sortConfig.column = col
               /\ s.sortConfig.direction = "asc"
            THEN "desc" ELSE "asc"
    IN  [withHist(s, setData(hist(s), sortRows(s.present, col, direction, engine))) EXCEPT
            !.sortConfig = [column |-> col, direction |-> direction],
            !.message = "none"]

(***************************************************************************)
(* QuickAddFooter.handleAdd                                                *)
(***************************************************************************)
\* the value handleAdd stores for a column: the data an overlay saved as it
\* is, the typed text by the type a slash command gave the column
quickValue(type, entry) ==
    IF entry.data # <<>> THEN entry.data[1]
    ELSE LET valStr == entry.text
         IN  CASE type = "text" -> StrOf(valStr)
               [] type = "number" ->
                     IF isNumeric(valStr) THEN Num(Number(valStr))
                     ELSE StrOf(valStr)
               [] type = "boolean" ->
                     Bool(toLowerCase(valStr) = <<"t", "r", "u", "e">>)
               [] OTHER ->
                     IF includes(valStr, ",") THEN parseArrayInput(valStr)
                     ELSE IF isNumeric(valStr) /\ valStr # <<>>
                     THEN Num(Number(valStr))
                     ELSE StrOf(valStr)

\* the row handleAdd builds from the footer's types and values
quickRow(cols, types, vals) ==
    [c \in {cols[i] : i \in DOMAIN cols} |->
        quickValue(IF c \in DOMAIN types THEN types[c] ELSE "auto",
                   IF c \in DOMAIN vals THEN vals[c] ELSE Typed(<<>>))]

\* hasData: some column has a value that is neither undefined nor ""
quickHasData(cols, vals) ==
    \E i \in DOMAIN cols :
        cols[i] \in DOMAIN vals /\ vals[cols[i]] # Typed(<<>>)

(***************************************************************************)
(* The grid: QuickAddFooter's add, and DataTable's focus, keys and inline  *)
(* edit. Rows and columns of the focus count from 0 as in the code; the    *)
(* model's sequences count from 1.                                         *)
(***************************************************************************)
\* DataTable's two focus effects, run after a render with len rows: the
\* initial focus when the row count changed and nothing is focused, and the
\* clamp of a focus whose row is out of range.
focusEffects(focus, lengthChanged, len) ==
    IF focus = NoFocus
    THEN (IF lengthChanged /\ len > 0 THEN [row |-> 0, col |-> 0] ELSE NoFocus)
    ELSE IF focus.row >= len
    THEN [row |-> IF len - 1 > 0 THEN len - 1 ELSE 0, col |-> focus.col]
    ELSE focus

\* The focus of App's grid after a render: App mounts the grid only while
\* there are rows, and a mounted grid starts with no focus.
gridFocus(focus, oldLen, newLen) ==
    IF newLen = 0 THEN NoFocus
    ELSE IF oldLen = 0 THEN focusEffects(NoFocus, TRUE, newLen)
    ELSE focusEffects(focus, oldLen # newLen, newLen)

\* QuickAddFooter.handleAdd followed by DataTable.handleAddRow: the row is
\* added and the footer's first input takes the focus again, which clears
\* the grid's focus unless that input already had it.
handleAdd(s, vals) ==
    IF ~quickHasData(s.columns, vals) THEN s
    ELSE [addRow(s, quickRow(s.columns, s.footer.types, vals)) EXCEPT
             !.refocus = s.columns[1] \notin DOMAIN vals,
             !.footer.values = <<>>,
             !.footer.types = <<>>]

focusAt(s, r, c) ==
    [s EXCEPT !.focusedCell = [row |-> r, col |-> c]]

\* the cell's onClick
onFocusCell(s, r, colIdx) == focusAt(s, r, colIdx)

\* the delete button's onFocus
onFocusDelete(s, r) == focusAt(s, r, Len(s.columns))

KeyCol == <<"k", "e", "y">>
ValueCol == <<"v", "a", "l", "u", "e">>

\* the rows NestedTableModal hands to its grid
tableData(localData) ==
    IF localData.t = "objects" THEN localData.v
    ELSE [i \in DOMAIN localData.v |->
             (KeyCol :> StrOf(localData.v[i].key)) @@
             (ValueCol :> localData.v[i].value)]

\* the columns NestedTableModal hands to its grid
tableColumns(localData) ==
    IF localData.t = "objects" THEN inferColumns(localData.v)
    ELSE <<KeyCol, ValueCol>>

\* the overlay opened on a cell holding val; its freshly mounted grid focuses
\* its first cell
nestedOpen(rowIdx, col, val) ==
    [NoModal EXCEPT
        !.rowIdx = rowIdx, !.col = col, !.localData = val,
        !.focus = focusEffects(NoFocus, TRUE, Len(tableData(val)))]

\* a test that sends arrays to the inline input whatever they hold
opensOverlayForObjects(val) == val.t = "object"

\* val sends handleStartEdit to the overlay: an object, or an array with an
\* element that is an object
opensOverlay(val) ==
    \/ val.t = "object"
    \/ val.t = "objects" /\ Len(val.v) > 0

\* a start of edit that always takes the first column
handleStartEditFirstColumn(s, rowIdx, col) ==
    [s EXCEPT
        !.editingCell = [row |-> rowIdx, col |-> s.columns[1]],
        !.cellInput = [NoInput EXCEPT !.row = rowIdx, !.col = s.columns[1]]]

handleStartEdit(s, rowIdx, col) ==
    LET row == s.present[rowIdx + 1]
    IN  IF col \in DOMAIN row /\ opensOverlay(row[col])
        THEN [s EXCEPT !.nested = nestedOpen(rowIdx, col, row[col])]
        ELSE [s EXCEPT
                 !.editingCell = [row |-> rowIdx, col |-> col],
                 !.cellInput = [NoInput EXCEPT !.row = rowIdx, !.col = col]]

\* DataTable.handleUpdateCell
handleUpdateCell(s, rowIdx, col, val) ==
    [updateCell(s, rowIdx + 1, col, val) EXCEPT !.editingCell = NoEdit]

\* a clear that writes null
clearValueToNull(s, row, colName) == handleUpdateCell(s, row, colName, Null)

\* the clear-value branch of Delete and Backspace
clearValue(s, row, colName) == handleUpdateCell(s, row, colName, Str(0))

\* handleTableKeyDown, for a key the grid's container receives. key is one
\* of the Arrow keys, "Tab", "Escape", "Enter", " " (the space bar),
\* "MetaEnter" (Enter with the meta or control key), "Delete" and "Backspace".
handleTableKeyDown(s, key, shiftKey) ==
    LET row == s.focusedCell.row
        col == s.focusedCell.col
        colCount == Len(s.columns)
        rowCount == Len(s.present)
        stop == [s EXCEPT !.prevented = TRUE]
        colName == IF col + 1 \in DOMAIN s.columns THEN s.columns[col + 1]
                   ELSE <<>>
    IN  IF s.editingCell # NoEdit THEN s
        ELSE IF s.focusedCell = NoFocus /\ rowCount > 0
        THEN (IF key \in {"ArrowUp", "ArrowDown", "ArrowLeft", "ArrowRight"}
              THEN focusAt(stop, 0, 0) ELSE s)
        ELSE IF s.focusedCell = NoFocus \/ rowCount = 0 THEN s
        ELSE CASE key = "MetaEnter" -> [stop EXCEPT !.focusedCell = NoFocus]
          [] key = "Escape" -> [stop EXCEPT !.focusedCell = NoFocus]
          [] key = "ArrowUp" ->
                IF row > 0 THEN focusAt(stop, row - 1, col) ELSE stop
          [] key = "ArrowDown" ->
                IF row < rowCount - 1 THEN focusAt(stop, row + 1, col)
                ELSE stop
          [] key = "ArrowLeft" ->
                IF col > 0 THEN focusAt(stop, row, col - 1) ELSE stop
          [] key = "ArrowRight" ->
                IF col < colCount THEN focusAt(stop, row, col + 1) ELSE stop
          [] key = "Tab" /\ shiftKey ->
                IF col > 0 THEN focusAt(stop, row, col - 1)
                ELSE IF row > 0 THEN focusAt(stop, row - 1, colCount)
                ELSE [s EXCEPT !.focusedCell = NoFocus]
          [] key = "Tab" /\ ~shiftKey ->
                IF col < colCount THEN focusAt(stop, row, col + 1)
                ELSE IF row < rowCount - 1 THEN focusAt(stop, row + 1, 0)
                ELSE [s EXCEPT !.focusedCell = NoFocus]
          [] key \in {"Enter", " "} ->
                IF col = colCount THEN deleteRow(stop, row + 1)
                ELSE IF colName # <<>> THEN handleStartEdit(stop, row, colName)
                ELSE stop
          [] key \in {"Delete", "Backspace"} ->
                IF shiftKey \/ col = colCount THEN deleteRow(stop, row + 1)
                ELSE IF colName # <<>> THEN clearValue(stop, row, colName)
                ELSE stop
          [] OTHER -> s

\* DataTable.handleCancelEdit
handleCancelEdit(s) == [s EXCEPT !.editingCell = NoEdit]

\* DataTable.handleNavigate as the input's render closed over it: editing is
\* the editingCell of that render.
handleNavigate(s, editing, dir) ==
    IF editing = NoEdit THEN s
    ELSE LET row == editing.row
             colIdx == IF includes(s.columns, editing.col)
                       THEN (CHOOSE i \in DOMAIN s.columns :
                                s.columns[i] = editing.col) - 1
                       ELSE -1
             colCount == Len(s.columns)
             rowCount == Len(s.present)
             moved ==
                 IF dir = "next"
                 THEN (IF colIdx < colCount THEN focusAt(s, row, colIdx + 1)
                       ELSE IF row < rowCount - 1 THEN focusAt(s, row + 1, 0)
                       ELSE s)
                 ELSE (IF colIdx > 0 THEN focusAt(s, row, colIdx - 1)
                       ELSE IF row > 0 THEN focusAt(s, row - 1, colCount)
                       ELSE s)
         IN  [moved EXCEPT !.editingCell = NoEdit]

\* The value handleSave makes of the typed text value, by the shape of the
\* cell's value when the edit is saved; absent stands for undefined.
\* a coercion whose boolean test compares the text as typed
finalValueCaseSensitive(absent, initialValue, value) ==
    IF absent THEN StrOf(value)
    ELSE CASE initialValue.t \in {"list", "objects"} -> parseArrayInput(value)
           [] initialValue.t = "number" ->
                 IF isNumeric(value) THEN Num(Number(value)) ELSE StrOf(value)
           [] initialValue.t = "boolean" -> Bool(value = <<"t", "r", "u", "e">>)
           [] OTHER -> StrOf(value)

finalValue(absent, initialValue, value) ==
    IF absent THEN StrOf(value)
    ELSE CASE initialValue.t \in {"list", "objects"} -> parseArrayInput(value)
           [] initialValue.t = "number" ->
                 IF isNumeric(value) THEN Num(Number(value)) ELSE StrOf(value)
           [] initialValue.t = "boolean" ->
                 Bool(toLowerCase(value) = <<"t", "r", "u", "e">>)
           [] OTHER -> StrOf(value)

\* the initialValue of the input of cell (rowIdx, col) of rows
cellFinalValue(rows, rowIdx, col, value) ==
    LET row == rows[rowIdx + 1]
    IN  finalValue(col \notin DOMAIN row,
                   IF col \in DOMAIN row THEN row[col] ELSE Null, value)

\* a save that does not look at isSaving
handleSaveUnguarded(s, value) ==
    IF s.cellInput.isCanceling THEN s
    ELSE handleUpdateCell(
             [s EXCEPT !.cellInput.isSaving = TRUE,
                       !.cellInput.saves = @ + 1],
             s.cellInput.row, s.cellInput.col,
             cellFinalValue(s.present, s.cellInput.row, s.cellInput.col, value))

\* EditableCell.handleSave with value, the text typed into the input. saves
\* counts the onSave calls of this input.
handleSave(s, value) ==
    IF s.cellInput.isCanceling \/ s.cellInput.isSaving THEN s
    ELSE handleUpdateCell(
             [s EXCEPT !.cellInput.isSaving = TRUE,
                       !.cellInput.saves = @ + 1],
             s.cellInput.row, s.cellInput.col,
             cellFinalValue(s.present, s.cellInput.row, s.cellInput.col, value))

\* the input's onBlur
onBlur(s, value) == handleSave(s, value)

\* EditableCell.handleKeyDown. The handlers that end the edit hand the focus
\* to the grid's container, which blurs the input within the same event.
inputKeyDown(s, key, shiftKey, value) ==
    CASE key = "Enter" -> onBlur(handleSave(s, value), value)
      [] key = "Escape" ->
            onBlur(handleCancelEdit([s EXCEPT !.cellInput.isCanceling = TRUE,
                                              !.prevented = TRUE]),
                   value)
      [] key = "Tab" ->
            handleNavigate(
                onBlur(handleSave([s EXCEPT !.prevented = TRUE], value),
                       value),
                s.editingCell, IF shiftKey THEN "prev" ELSE "next")
      [] OTHER -> s

\* DataTable's onUpdateData for its overlay, without the test for onSave
onUpdateDataToCell(s, newData) ==
    updateCell(s, s.nested.rowIdx + 1, s.nested.col, newData)

\* DataTable's onUpdateData for its overlay: an overlay opened from the
\* footer hands newData to its onSave, which stores it as the footer's value
\* of the column; any other hands it to onUpdateCell for the cell it was
\* opened on.
onUpdateData(s, newData) ==
    IF s.nested.onSave
    THEN [s EXCEPT !.footer.values = (s.nested.col :> Saved(newData)) @@ @]
    ELSE updateCell(s, s.nested.rowIdx + 1, s.nested.col, newData)

\* NestedTableModal.handleDeleteRow on an array, and the write-back of the
\* overlay's rows to the cell it was opened on. The overlay's grid stays
\* mounted whatever the number of its rows.
nestedDeleteRow(s, rowIdx) ==
    LET newData == [s.nested.localData EXCEPT !.v = splice1(@, rowIdx + 1)]
    IN  [onUpdateData(s, newData) EXCEPT
            !.nested.localData = newData,
            !.nested.focus =
                focusEffects(s.nested.focus, TRUE, Len(newData.v))]

\* the overlay's onOpenChange(false)
closeNested(s) == [s EXCEPT !.nested = NoModal]

\* Overlays nest: the grid of an overlay opens an overlay of its own on a
\* cell that holds an object. lvl 1 is the overlay App's grid opened, lvl 2
\* the one opened from it.
frame(s, lvl) == IF lvl = 1 THEN s.nested ELSE s.nested.inner

setFrame(s, lvl, fr) ==
    IF lvl = 1 THEN [s EXCEPT !.nested = fr] ELSE [s EXCEPT !.nested.inner = fr]

\* the deepest overlay that is open, 0 when none is
topLevel(s) ==
    IF s.nested = NoModal THEN 0 ELSE IF s.nested.inner = NoInner THEN 1 ELSE 2

\* a key JavaScript keeps before the string keys of an object (an array index)
IsIndexKey(k) == k = <<"1">>

\* obj[k] = val on the entries of an object: an own key keeps its place, a new
\* index key goes before the string keys, any other new key goes last
objAssign(entries, k, val) ==
    IF \E i \in DOMAIN entries : entries[i].key = k
    THEN [i \in DOMAIN entries |->
             IF entries[i].key = k THEN [key |-> k, value |-> val]
             ELSE entries[i]]
    ELSE IF IsIndexKey(k) THEN <<[key |-> k, value |-> val]>> \o entries
    ELSE Append(entries, [key |-> k, value |-> val])

\* the loop of the key branch: entries[1..n] copied into a new object, the
\* entry at index rowIdx (from 0) under the key newKey
renamedUpTo(entries, rowIdx, newKey, n) ==
    LET step[i \in 0..n] ==
            IF i = 0 THEN <<>>
            ELSE objAssign(step[i - 1],
                           IF i = rowIdx + 1 THEN newKey ELSE entries[i].key,
                           entries[i].value)
    IN  step[n]

\* the key a value names when used as a property name
keyOf(val) == IF val.t = "string" THEN StrChars(val.v) ELSE lowerString(val)

\* NestedTableModal.handleDeleteColumn of the overlay that has a column menu:
\* the array without the property colName in any item
nestedHandleDeleteColumn(localData, colName) ==
    IF localData.t = "objects"
    THEN [localData EXCEPT
             !.v = [i \in DOMAIN @ |->
                       [k \in DOMAIN @[i] \ {colName} |-> @[i][k]]]]
    ELSE localData

\* the value NestedTableModal.handleUpdateCell builds from its localData
nestedUpdateData(localData, rowIdx, col, value) ==
    IF localData.t = "object"
    THEN (IF col = KeyCol
          THEN [localData EXCEPT
                   !.v = renamedUpTo(@, rowIdx, keyOf(value), Len(@))]
          ELSE [localData EXCEPT
                   !.v = objAssign(@, @[rowIdx + 1].key, value)])
    ELSE [localData EXCEPT !.v[rowIdx + 1] = WithKey(@, col, value)]

\* setLocalData(newData) and onUpdateData(newData) of the overlay at lvl: the
\* grid that opened the overlay hands newData to its own onUpdateCell for the
\* cell the overlay was opened on, up to App's updateCell.
writeBack(s, lvl, newData) ==
    IF lvl = 1
    THEN [onUpdateData(s, newData) EXCEPT !.nested.localData = newData]
    ELSE LET outer == nestedUpdateData(s.nested.localData,
                                       s.nested.inner.rowIdx,
                                       s.nested.inner.col, newData)
         IN  [onUpdateData(s, outer) EXCEPT
                 !.nested.localData = outer,
                 !.nested.inner.localData = newData]

\* a click on a cell of the overlay's grid
nestedFocusCell(s, lvl, r, colIdx) ==
    setFrame(s, lvl, [frame(s, lvl) EXCEPT !.focus = [row |-> r, col |-> colIdx]])

\* handleStartEdit of the overlay's grid (a double click on the cell)
nestedStartEdit(s, lvl, rowIdx, col) ==
    LET fr == frame(s, lvl)
        row == tableData(fr.localData)[rowIdx + 1]
    IN  IF col \in DOMAIN row /\ opensOverlay(row[col])
        THEN [s EXCEPT !.nested.inner =
                 [NoInner EXCEPT
                     !.rowIdx = rowIdx, !.col = col, !.localData = row[col],
                     !.focus = focusEffects(NoFocus, TRUE,
                                            Len(tableData(row[col])))]]
        ELSE [setFrame(s, lvl, [fr EXCEPT
                  !.editingCell = [row |-> rowIdx, col |-> col]]) EXCEPT
                 !.cellInput = [NoInput EXCEPT !.row = rowIdx, !.col = col]]

\* EditableCell.handleSave of the input in the overlay's grid: onSave is the
\* grid's handleUpdateCell over NestedTableModal.handleUpdateCell
nestedHandleSave(s, lvl, value) ==
    IF s.cellInput.isCanceling \/ s.cellInput.isSaving THEN s
    ELSE LET marked == [s EXCEPT !.cellInput.isSaving = TRUE,
                                 !.cellInput.saves = @ + 1]
             saved == writeBack(marked, lvl,
                                nestedUpdateData(frame(s, lvl).localData,
                                                 s.cellInput.row,
                                                 s.cellInput.col,
                                                 cellFinalValue(
                                                     tableData(frame(s, lvl).localData),
                                                     s.cellInput.row,
                                                     s.cellInput.col, value)))
         IN  setFrame(saved, lvl,
                      [frame(saved, lvl) EXCEPT !.editingCell = NoEdit])

\* EditableCell.handleKeyDown of that input, with the blur that ends the edit
nestedInputKeyDown(s, lvl, key, value) ==
    CASE key = "Enter" ->
            nestedHandleSave(nestedHandleSave(s, lvl, value), lvl,
                             value)
      [] key = "Escape" ->
            LET cancelled ==
                    [setFrame(s, lvl, [frame(s, lvl) EXCEPT
                         !.editingCell = NoEdit]) EXCEPT
                        !.cellInput.isCanceling = TRUE,
                        !.prevented = TRUE]
            IN  nestedHandleSave(cancelled, lvl, value)
      [] OTHER -> s

\* the overlay's onOpenChange(false), for the deepest overlay that is open
closeTop(s) ==
    IF topLevel(s) = 2 THEN [s EXCEPT !.nested.inner = NoInner]
    ELSE closeNested(s)

\* Escape pressed with the overlay at lvl on top. The dialog asks
\* onEscapeKeyDown, which suppresses the dismissal while the overlay's grid
\* is editing (isEditing follows that grid's editingCell); the key then
\* reaches the input.
nestedEscape(s, lvl, value) ==
    IF frame(s, lvl).editingCell # NoEdit
    THEN nestedInputKeyDown(s, lvl, "Escape", value)
    ELSE closeTop(s)

(***************************************************************************)
(* The footer's overlay: QuickAddFooter's input, slash menu and chips, the *)
(* overlay DataTable opens for it, and NestedTableModal.handleAddRow.      *)
(***************************************************************************)
\* the overlay DataTable opens for the footer: no row, and an onSave
footerOpenNested(col, initialData) ==
    [nestedOpen(-1, col, initialData) EXCEPT !.onSave = TRUE]

\* QuickAddFooter.handleInputChange
handleInputChange(s, col, val) ==
    [s EXCEPT
        !.footer.menuState =
            IF val # <<>> /\ Head(val) = "/" THEN col
            ELSE IF @ = col THEN NoMenu ELSE @,
        !.footer.values = (col :> Typed(val)) @@ @]

\* QuickAddFooter.handleCommandSelect
handleCommandSelect(s, command) ==
    IF s.footer.menuState = NoMenu THEN s
    ELSE LET col == s.footer.menuState
             cleared == [s EXCEPT
                            !.footer.values = (col :> Typed(<<>>)) @@ @,
                            !.footer.menuState = NoMenu]
         IN  CASE command \in {"text", "number"} ->
                     [cleared EXCEPT !.footer.types = (col :> command) @@ @]
               [] command = "bool" ->
                     [cleared EXCEPT !.footer.types = (col :> "boolean") @@ @]
               [] command \in {"obj", "list"} ->
                     [cleared EXCEPT
                         !.nested =
                             footerOpenNested(col, IF command = "obj"
                                                   THEN Obj(<<>>)
                                                   ELSE ObjArr(<<>>))]
               [] OTHER -> [s EXCEPT !.footer.menuState = NoMenu]

\* QuickAddFooter.handleKeyDown on the input of column col. Enter with the
\* menu open is left to the menu.
footerKeyDown(s, col, key) ==
    IF s.footer.menuState # NoMenu /\ key = "Enter" THEN s
    ELSE IF s.footer.menuState # NoMenu /\ key = "Escape"
    THEN [s EXCEPT !.footer.menuState = NoMenu, !.prevented = TRUE]
    ELSE IF key = "Enter"
    THEN LET added == handleAdd(s, s.footer.values)
         IN  [added EXCEPT !.refocus = @ /\ col # s.columns[1]]
    ELSE s

\* the X button of the chip of column col
footerRemoveValue(s, col) ==
    [s EXCEPT !.footer.values = [c \in DOMAIN @ \ {col} |-> @[c]]]

\* the edit button of the chip of column col
footerEditValue(s, col) ==
    [s EXCEPT !.nested = footerOpenNested(col, s.footer.values[col].data[1])]

\* a value JavaScript takes for true
truthy(val) ==
    CASE val.t = "null" -> FALSE
      [] val.t \in {"number", "string", "boolean"} -> val.v # 0
      [] OTHER -> TRUE

\* the while loop of handleAddRow: base, or base_1, base_2, ... for the
\* first counter whose key the object does not have
uniqueKey(entries, base) ==
    LET has(k) == \E i \in DOMAIN entries : entries[i].key = k
        numbered(n) == base \o <<"_", DigitChar(n)>>
    IN  IF ~has(base) THEN base
        ELSE numbered(Min({n \in 1..2 : ~has(numbered(n))}))

\* the data NestedTableModal.handleAddRow builds from its localData
nestedAddRowData(localData, row) ==
    IF localData.t = "object"
    THEN LET base == IF truthy(row[KeyCol]) THEN keyOf(row[KeyCol])
                     ELSE StrChars(8)
             value == IF truthy(row[ValueCol]) THEN row[ValueCol] ELSE Str(0)
         IN  [localData EXCEPT !.v = objAssign(@, uniqueKey(@, base), value)]
    ELSE [localData EXCEPT !.v = Append(@, row)]

\* handleAdd of the footer of the overlay's grid, with Enter pressed in its
\* first input, followed by NestedTableModal.handleAddRow
nestedHandleAddRow(s, vals) ==
    LET cols == tableColumns(s.nested.localData)
        newData == nestedAddRowData(s.nested.localData,
                                    quickRow(cols, <<>>, vals))
    IN  IF ~quickHasData(cols, vals) THEN s
        ELSE [writeBack(s, 1, newData) EXCEPT
                 !.nested.focus =
                     focusEffects(NoFocus, TRUE, Len(tableData(newData)))]

(***************************************************************************)
(* The focus effects of the overlay's grid one run at a time: a handler    *)
(* renders the grid with changed dependencies, and the effects run after   *)
(* the render.                                                             *)
(***************************************************************************)
\* NestedTableModal.handleDeleteRow up to the render with the shorter rows
shrinkRows(s, rowIdx) ==
    LET newData == [s.nested.localData EXCEPT !.v = splice1(@, rowIdx + 1)]
    IN  [onUpdateData(s, newData) EXCEPT
            !.nested.localData = newData,
            !.nested.due.length = TRUE]

\* onFocusCell of the overlay's grid up to the render with the new focus
setFocusedCell(s, focus) ==
    [s EXCEPT !.nested.focus = focus,
              !.nested.focusId = 1 - @,
              !.nested.due.focus = TRUE]

\* The effects that run after a render of the overlay's grid: the initial
\* focus, whose dependency is data.length, and the clamp, whose dependencies
\* are data.length and focusedCell. Each setFocusedCell makes a new object,
\* so it renders the grid again with a changed focusedCell.
runEffects(s) ==
    LET len == Len(tableData(s.nested.localData))
        f == s.nested.focus
        ran == [s EXCEPT !.nested.due = [length |-> FALSE, focus |-> FALSE]]
    IN  IF s.nested.due.length /\ len > 0 /\ f = NoFocus
        THEN setFocusedCell(ran, [row |-> 0, col |-> 0])
        ELSE IF f # NoFocus /\ f.row >= len
        THEN setFocusedCell(ran, [row |-> IF len - 1 > 0 THEN len - 1 ELSE 0,
                                  col |-> f.col])
        ELSE ran

(***************************************************************************)
(* lib/data-utils.ts: flattenObject and unflattenObject, on the entries    *)
(* [key, value] of an object in property order.                            *)
(***************************************************************************)
\* prefix ? `${prefix}.${key}` : key
joinKey(prefix, key) == IF prefix = <<>> THEN key ELSE prefix \o <<".">> \o key

\* result after Object.assign(result, source)
RECURSIVE assignAll(_, _)
assignAll(result, source) ==
    IF source = <<>> THEN result
    ELSE assignAll(objAssign(result, Head(source).key, Head(source).value),
                   Tail(source))

\* flattenObject(obj, prefix): the loop over the first n entries of obj
RECURSIVE flattenUpTo(_, _, _)
flattenUpTo(entries, prefix, n) ==
    IF n = 0 THEN <<>>
    ELSE LET result == flattenUpTo(entries, prefix, n - 1)
             value == entries[n].value
             newKey == joinKey(prefix, entries[n].key)
         IN  IF value.t = "object"
             THEN assignAll(result, flattenUpTo(value.v, newKey, Len(value.v)))
             ELSE objAssign(result, newKey, value)

flattenObject(entries, prefix) == flattenUpTo(entries, prefix, Len(entries))

\* key.split('.')
RECURSIVE splitDots(_)
splitDots(s) ==
    IF \A i \in DOMAIN s : s[i] # "."
    THEN <<s>>
    ELSE LET i == Min({j \in DOMAIN s : s[j] = "."})
         IN  <<SubSeq(s, 1, i - 1)>> \o splitDots(SubSeq(s, i + 1, Len(s)))

hasKey(entries, k) == \E i \in DOMAIN entries : entries[i].key = k

valueOf(entries, k) == entries[CHOOSE i \in DOMAIN entries : entries[i].key = k].value

\* what a walk or an assignment gives when it meets a value that takes no
\* property: a TypeError
Thrown == <<[key |-> <<"TypeError">>, value |-> Null]>>

\* The inner loop and the final assignment of unflattenObject for one flat
\* key: the object entries with val stored under the path keys, a missing
\* step created as {}. A step that holds null or a primitive throws (the
\* module is strict); one that holds an array is left as it is here.
RECURSIVE setPath(_, _, _)
setPath(entries, keys, val) ==
    IF Len(keys) = 1 THEN objAssign(entries, keys[1], val)
    ELSE LET k == keys[1]
             current == IF hasKey(entries, k) THEN valueOf(entries, k)
                        ELSE Obj(<<>>)
             inner == setPath(current.v, Tail(keys), val)
         IN  IF current.t \in {"list", "objects"} THEN entries
             ELSE IF current.t # "object" \/ inner = Thrown THEN Thrown
             ELSE objAssign(entries, k, Obj(inner))

\* unflattenObject(obj): the loop over the first n entries of obj
RECURSIVE unflattenUpTo(_, _)
unflattenUpTo(entries, n) ==
    IF n = 0 THEN <<>>
    ELSE LET result == unflattenUpTo(entries, n - 1)
         IN  IF result = Thrown THEN Thrown
             ELSE setPath(result, splitDots(entries[n].key), entries[n].value)

unflattenObject(entries) == unflattenUpTo(entries, Len(entries))

\* the entries of a row, and the row with the given entries
entriesOf(row) ==
    LET names == SortNames(DOMAIN row)
    IN  [i \in DOMAIN names |-> [key |-> names[i], value |-> row[names[i]]]]

rowOf(entries) ==
    [k \in {entries[i].key : i \in DOMAIN entries} |-> valueOf(entries, k)]

(***************************************************************************)
(* Inputs.                                                                 *)
(***************************************************************************)
Dataset1 == <<(NA :> Num(1)) @@ (NB :> List(1)), (NA :> Null)>>
Dataset2 == <<(NB :> Str(1))>>

\* rows whose only key holds a space
Dataset3 == <<(<<"a", " ", "b">> :> Str(1))>>

\* one row whose cell holds an array of one object
Dataset4 == <<(NA :> Objs(1)) @@ (NB :> Num(1))>>

\* one row holding a list and a boolean
Dataset6 == <<(NA :> List(1)) @@ (NB :> Bool(FALSE))>>

ImportTexts ==
    {TextMalformed, TextObject, TextArray(Dataset2), TextArray(Dataset3)}

EditValues == {Num(1), List(1)}

\* Two rows of nested values: an object of two properties, an array of one
\* object that holds an object, and an object and a list in the second row.
Dataset5 ==
    <<(NA :> Obj(<<[key |-> <<"x">>, value |-> Num(1)],
                   [key |-> <<"a">>, value |-> Str(1)]>>))
      @@ (NB :> ObjArr(<<NA :> Obj(<<[key |-> <<"b">>, value |-> Num(1)]>>)>>)),
      (NA :> Obj(<<[key |-> <<"x">>, value |-> Num(2)]>>)) @@ (NB :> List(1))>>

\* what the user types into the input of a cell of an overlay
NestedTexts == {<<"1">>, <<"a">>}

\* what the user types into the input of a cell
EditTexts == {<<"1">>, <<"1", ",", "x">>, <<"T", "r", "u", "e">>}

\* what the user types into a column-name field
TypedNames == {<<" ">>, <<"c", " ">>, <<"a">>, <<"a", " ", "b">>}

\* the type and default choices of the add-column form
ColumnChoices == {<<"text", "null">>, <<"boolean", "true">>}

\* every order of the names in cols
Orders(cols) ==
    {o \in [DOMAIN cols -> {cols[i] : i \in DOMAIN cols}] :
        \A i \in DOMAIN cols : \E j \in DOMAIN cols : o[j] = cols[i]}

(***************************************************************************)
(* Actions: one per event, handled to completion. Commit installs the      *)
(* state a handler returns; the persistence effect runs with it.           *)
(***************************************************************************)
SetEvents ==
    {"updateCell", "deleteRow", "addRow", "sort", "addColumn", "renameColumn",
     "deleteColumn", "clearButton", "clearShortcut"}

RowEvents == {"updateCell", "deleteRow", "addRow"}

ColumnEvents == {"addColumn", "renameColumn", "deleteColumn"}

ImportEvents ==
    {"fileLoaded", "dropLoaded", "paste", "globalPaste", "loadDebugData"}

NoArg ==
    [val |-> Null, text |-> NoEntry, flag |-> FALSE, key |-> "none",
     typed |-> <<>>, cell |-> NoEdit]

NoTrack ==
    [base |-> <<>>, noop |-> FALSE, undoOf |-> <<>>, afterNoop |-> FALSE,
     pre |-> <<>>, redoOf |-> <<>>, imported |-> <<>>, hadHistory |-> FALSE,
     evicted |-> FALSE, opened |-> <<>>]

\* The record of earlier states after event ev, given arg, took the rows
\* from data to rows and raised msg.
\*   base       the rows before the last event that changed them through
\*              setData, while only setData events followed
\*   noop       the last event went through setData and changed no row
\*   undoOf     at an undo: base as it was before the undo
\*   afterNoop  at an undo: it followed an event that changed no row
\*   pre        at an undo right after a changing row operation: the history
\*              before the undo
\*   redoOf     at a redo: pre as it was before the redo
\*   imported   the rows of the last accepted import, while only undo and
\*              redo followed
\*   hadHistory past was not empty when that import was accepted
\*   evicted    a changing setData met a full past since the last import
\*   opened     the row the open overlay was opened on, as it was then;
\*              modal is the overlay after the event
trackAfter(ev, arg, rows, msg, modal) ==
    LET changed == rows # data
        accepted == ev \in ImportEvents /\ msg = "imported"
    IN  [base |-> IF ev \in SetEvents
                  THEN (IF changed THEN <<data>> ELSE track.base)
                  ELSE <<>>,
         noop |-> ev \in SetEvents /\ ~changed,
         undoOf |-> IF ev = "undo" THEN track.base ELSE <<>>,
         afterNoop |-> ev = "undo" /\ track.noop /\ track.base # <<>>,
         pre |-> IF /\ ev = "undo"
                    /\ lastEvent \in RowEvents
                    /\ track.base # <<>>
                    /\ ~track.noop
                 THEN <<[past |-> past, present |-> data, future |-> future]>>
                 ELSE <<>>,
         redoOf |-> IF ev = "redo" THEN track.pre ELSE <<>>,
         imported |-> IF accepted THEN <<arg.text.rows>>
                      ELSE IF ev \in {"undo", "redo"} THEN track.imported
                      ELSE <<>>,
         hadHistory |-> IF accepted THEN past # <<>>
                        ELSE ev \in {"undo", "redo"} /\ track.hadHistory,
         evicted |-> IF accepted THEN FALSE
                     ELSE \/ track.evicted
                          \/ /\ ev \in SetEvents
                             /\ changed
                             /\ Len(past) = HistoryLimit,
         opened |-> IF modal = NoModal \/ modal.rowIdx + 1 \notin DOMAIN data
                    THEN <<>>
                    ELSE IF nested = NoModal THEN <<data[modal.rowIdx + 1]>>
                    ELSE track.opened]

\* the last three events
trailAfter(ev, rows) ==
    LET t == Append(trail, [ev |-> ev, changed |-> rows # data])
    IN  IF Len(t) > 3 THEN Tail(t) ELSE t

\* the persistence effect runs when the rows changed or were replaced
writeAttempted(s) == s.present # data \/ s.message = "imported"

\* localStorage.setItem throws while writes fail
writeThrows(s) == writeAttempted(s) /\ Len(s.present) > 0 /\ ~storageOk

Commit(ev, arg, s) ==
    /\ ~crashed
    /\ data' = s.present
    /\ past' = s.past
    /\ future' = s.future
    /\ columns' = s.columns
    /\ schema' = s.schema
    /\ sortConfig' = s.sortConfig
    /\ message' = s.message
    /\ storage' = IF writeAttempted(s) /\ ~writeThrows(s) /\ s.message # "threw"
                  THEN persist(s.present) ELSE storage
    /\ crashed' = (writeThrows(s) \/ s.message = "threw")
    /\ storageOk' = storageOk
    /\ focusedCell' = IF s.refocus /\ Len(s.present) > 0 THEN NoFocus
                      ELSE gridFocus(s.focusedCell, Len(data), Len(s.present))
    /\ editingCell' = IF Len(s.present) = 0 THEN NoEdit ELSE s.editingCell
    /\ cellInput' = IF Len(s.present) = 0 THEN NoInput ELSE s.cellInput
    /\ nested' = IF Len(s.present) = 0 THEN NoModal ELSE s.nested
    /\ footer' = IF Len(s.present) = 0 THEN NoFooter ELSE s.footer
    /\ prevented' = s.prevented
    /\ inflight' = s.inflight
    /\ lastEvent' = ev
    /\ lastArg' = arg
    /\ trail' = trailAfter(ev, s.present)
    /\ track' = trackAfter(ev, arg, s.present, s.message,
                            IF Len(s.present) = 0 THEN NoModal ELSE s.nested)
    /\ steps' = steps + 1

\* The grid (and with it every cell, row and column control) is rendered
\* only while there are rows.
GridShown == Len(data) > 0

UpdateCell(r, c, val) ==
    /\ GridShown
    /\ r \in DOMAIN data
    /\ includes(columns, c)
    /\ Commit("updateCell",
              [NoArg EXCEPT !.val = val, !.cell = [row |-> r, col |-> c]],
              updateCell(App, r, c, val))

DeleteRow(r) ==
    /\ GridShown
    /\ r \in DOMAIN data
    /\ Commit("deleteRow", [NoArg EXCEPT !.cell.row = r], deleteRow(App, r))

Undo == Commit("undo", NoArg, handleUndo(App))

Redo == Commit("redo", NoArg, onRedo(App))

\* reader.onload of handleFileUpload
FileLoaded(text) ==
    Commit("fileLoaded", [NoArg EXCEPT !.text = text], applyImport(App, text))

\* reader.onload of handleDrop
DropLoaded(text) ==
    Commit("dropLoaded", [NoArg EXCEPT !.text = text], applyImport(App, text))

\* handlePaste resumed after the clipboard read
PasteRead(granted, text) ==
    Commit("paste", [NoArg EXCEPT !.text = text, !.flag = granted],
           handlePaste(App, granted, text))

GlobalPaste(targetIsInput, text) ==
    Commit("globalPaste", [NoArg EXCEPT !.text = text, !.flag = targetIsInput],
           handleGlobalPaste(App, targetIsInput, text))

\* the debug panel is part of the welcome screen
LoadDebugData(debugData) ==
    /\ ~GridShown
    /\ Commit("loadDebugData", [NoArg EXCEPT !.text = TextArray(debugData)],
              handleLoadDebugData(App, debugData))

AddRow(c, text) ==
    /\ GridShown
    /\ Len(data) < MaxRows
    /\ includes(columns, c)
    /\ quickHasData(columns, c :> Typed(text))
    /\ Commit("addRow", NoArg,
              handleAdd([App EXCEPT !.focusedCell = NoFocus],
                        c :> Typed(text)))

Sort(c) ==
    /\ GridShown
    /\ includes(columns, c)
    /\ \E engine \in Engines :
          Commit("sort", [NoArg EXCEPT !.cell.col = c],
                 handleSort(App, c, engine))

AddColumn(typed, choice) ==
    /\ GridShown
    /\ Commit("addColumn", NoArg,
              submitAddColumn(App, typed, choice[1], choice[2]))

RenameColumn(c, typed) ==
    /\ GridShown
    /\ includes(columns, c)
    /\ Commit("renameColumn", [NoArg EXCEPT !.cell.col = c, !.typed = typed],
              submitRenameColumn(App, c, typed))

DeleteColumn(c) ==
    /\ GridShown
    /\ includes(columns, c)
    /\ Commit("deleteColumn", [NoArg EXCEPT !.cell.col = c],
              handleDeleteColumn(App, c))

ReorderColumns(newOrder) ==
    Commit("reorderColumns", NoArg, handleReorderColumns(App, newOrder))

\* the toolbar's clear button
ClearButton(confirmed) ==
    /\ GridShown
    /\ Commit("clearButton", [NoArg EXCEPT !.flag = confirmed],
              handleClear(App, confirmed))

\* the clear shortcut
ClearShortcut(confirmed) ==
    Commit("clearShortcut", [NoArg EXCEPT !.flag = confirmed],
           onClear(App, confirmed))

\* the input of the edited cell is rendered
InputLive ==
    /\ editingCell # NoEdit
    /\ editingCell.row < Len(data)
    /\ includes(columns, editingCell.col)

\* A click reaches the table: no overlay covers it, and no input is open,
\* whose blur would come before the click.
PointerFree == ~InputLive /\ nested = NoModal

\* a grid whose Tab wraps around to the first cell instead of leaving
TableKeyTabWraps(key, shiftKey) ==
    /\ GridShown
    /\ nested = NoModal
    /\ Commit("tableKey", [NoArg EXCEPT !.key = key, !.flag = shiftKey],
              LET s == handleTableKeyDown(App, key, shiftKey)
              IN  IF /\ key = "Tab"
                     /\ focusedCell # NoFocus
                     /\ s.focusedCell = NoFocus
                  THEN focusAt([s EXCEPT !.prevented = TRUE], 0, 0)
                  ELSE s)

\* a grid whose ArrowDown on the last row wraps around to the first row
TableKeyArrowWraps(key, shiftKey) ==
    /\ GridShown
    /\ nested = NoModal
    /\ Commit("tableKey", [NoArg EXCEPT !.key = key, !.flag = shiftKey],
              LET s == handleTableKeyDown(App, key, shiftKey)
              IN  IF /\ key = "ArrowDown"
                     /\ focusedCell # NoFocus
                     /\ focusedCell.row = Len(data) - 1
                  THEN focusAt(s, 0, focusedCell.col)
                  ELSE s)

\* a key pressed while the grid's container has the focus
TableKey(key, shiftKey) ==
    /\ GridShown
    /\ nested = NoModal
    /\ Commit("tableKey", [NoArg EXCEPT !.key = key, !.flag = shiftKey],
              handleTableKeyDown(App, key, shiftKey))

\* a click on the cell of row r (from 0) in the column at index c (from 0)
FocusCell(r, c) ==
    /\ GridShown
    /\ nested = NoModal
    /\ ~InputLive
    /\ r < Len(data)
    /\ c < Len(columns)
    /\ Commit("focusCell", NoArg, onFocusCell(App, r, c))

\* the delete button of row r (from 0) takes the focus
FocusDelete(r) ==
    /\ GridShown
    /\ nested = NoModal
    /\ ~InputLive
    /\ r < Len(data)
    /\ Commit("focusDelete", NoArg, onFocusDelete(App, r))

\* a key pressed in the input of the edited cell
InputKey(key, shiftKey, value) ==
    /\ InputLive
    /\ nested = NoModal
    /\ Commit("inputKey",
              [NoArg EXCEPT !.key = key, !.flag = shiftKey, !.typed = value],
              inputKeyDown(App, key, shiftKey, value))

\* the input of the edited cell loses the focus to something outside the grid
InputBlur(value) ==
    /\ InputLive
    /\ nested = NoModal
    /\ Commit("inputBlur", [NoArg EXCEPT !.typed = value],
              onBlur(App, value))

\* a click on the delete button of row rowIdx (from 0) of the overlay
NestedDeleteRow(rowIdx) ==
    /\ nested # NoModal
    /\ nested.inner = NoInner
    /\ nested.editingCell = NoEdit
    /\ rowIdx < Len(tableData(nested.localData))
    /\ Commit("nestedDeleteRow", NoArg, nestedDeleteRow(App, rowIdx))

\* the close button of the overlay on top
CloseNested ==
    /\ nested # NoModal
    /\ Commit("closeNested", NoArg, closeTop(App))

\* a click on the chip of the cell of row r (from 0) in column c
OpenNested(r, c) ==
    /\ GridShown
    /\ nested = NoModal
    /\ ~InputLive
    /\ r < Len(data)
    /\ includes(columns, c)
    /\ c \in DOMAIN data[r + 1]
    /\ opensOverlay(data[r + 1][c])
    /\ Commit("openNested", [NoArg EXCEPT !.cell = [row |-> r, col |-> c]],
              [App EXCEPT !.nested = nestedOpen(r, c, data[r + 1][c])])

\* a double click on the cell of row r (from 0) in column c of the grid of
\* the overlay on top: the clicks focus the cell, the double click starts the
\* edit. Overlays are followed two deep.
NestedStartEdit(r, c) ==
    LET lvl == topLevel(App)
        fr == frame(App, lvl)
        colIdx == indexOf(tableColumns(fr.localData), c)
    IN  /\ lvl >= 1
        /\ fr.editingCell = NoEdit
        /\ r < Len(tableData(fr.localData))
        /\ colIdx >= 0
        /\ lvl = 2 /\ c \in DOMAIN tableData(fr.localData)[r + 1]
               => ~opensOverlay(tableData(fr.localData)[r + 1][c])
        /\ Commit("nestedStartEdit",
                  [NoArg EXCEPT !.cell = [row |-> r, col |-> c]],
                  nestedStartEdit(nestedFocusCell(App, lvl, r, colIdx),
                                  lvl, r, c))

\* Enter or Escape pressed while an overlay is open, with value typed into
\* the input if one is open. The grid of an overlay takes no keys itself.
NestedKey(key, value) ==
    LET lvl == topLevel(App)
    IN  /\ lvl >= 1
        /\ Commit("nestedKey", [NoArg EXCEPT !.key = key, !.typed = value],
                  IF key = "Escape" THEN nestedEscape(App, lvl, value)
                  ELSE IF frame(App, lvl).editingCell # NoEdit
                  THEN nestedInputKeyDown(App, lvl, key, value)
                  ELSE App)

\* The input of column c is shown in the footer: no chip stands for it.
FooterInputShown(c) ==
    /\ GridShown
    /\ nested = NoModal
    /\ ~InputLive
    /\ includes(columns, c)
    /\ c \in DOMAIN footer.values => footer.values[c].data = <<>>

FooterChipShown(c) ==
    /\ GridShown
    /\ nested = NoModal
    /\ ~InputLive
    /\ includes(columns, c)
    /\ c \in DOMAIN footer.values
    /\ footer.values[c].data # <<>>

\* text becomes the content of the footer's input of column c, which has
\* the focus
FooterInput(c, text) ==
    /\ FooterInputShown(c)
    /\ Commit("footerInput", [NoArg EXCEPT !.typed = text, !.cell.col = c],
              handleInputChange([App EXCEPT !.focusedCell = NoFocus], c, text))

\* a command of the open slash menu is chosen
FooterCommand(command) ==
    /\ GridShown
    /\ nested = NoModal
    /\ footer.menuState # NoMenu
    /\ Commit("footerCommand", [NoArg EXCEPT !.key = command],
              handleCommandSelect(App, command))

\* Enter or Escape pressed in the footer's input of column c
FooterKey(c, key) ==
    /\ FooterInputShown(c)
    /\ Len(data) < MaxRows
    /\ Commit("footerKey", [NoArg EXCEPT !.key = key, !.cell.col = c],
              footerKeyDown([App EXCEPT !.focusedCell = NoFocus], c, key))

FooterRemove(c) ==
    /\ FooterChipShown(c)
    /\ Commit("footerRemove", [NoArg EXCEPT !.cell.col = c],
              footerRemoveValue(App, c))

FooterEdit(c) ==
    /\ FooterChipShown(c)
    /\ Commit("footerEdit", [NoArg EXCEPT !.cell.col = c],
              footerEditValue(App, c))

\* key and value typed into the footer of the grid of an overlay that shows
\* an object, and Enter pressed; the new key is one the model has a string
\* for
NestedAddRow(key, value) ==
    LET vals == (KeyCol :> Typed(key)) @@ (ValueCol :> Typed(value))
        row == quickRow(<<KeyCol, ValueCol>>, <<>>, vals)
    IN  /\ nested # NoModal
        /\ nested.inner = NoInner
        /\ nested.editingCell = NoEdit
        /\ nested.localData.t = "object"
        /\ Len(nested.localData.v) < 2
        /\ \A e \in {nestedAddRowData(nested.localData, row).v[i] :
                         i \in 1..Len(nested.localData.v) + 1} :
               \E n \in 0..9 : StrChars(n) = e.key
        /\ Commit("nestedAddRow", [NoArg EXCEPT !.typed = key],
                  nestedHandleAddRow(App, vals))

\* some dependency of the focus effects of the overlay's grid has changed
EffectsDue == nested # NoModal /\ (nested.due.length \/ nested.due.focus)

\* a click on the delete button of row rowIdx (from 0) of the overlay
ShrinkRows(rowIdx) ==
    /\ nested # NoModal
    /\ nested.inner = NoInner
    /\ nested.editingCell = NoEdit
    /\ rowIdx < Len(tableData(nested.localData))
    /\ Commit("nestedDeleteRow", NoArg, shrinkRows(App, rowIdx))

\* a click on the cell of row r and column index colIdx of the overlay
SetFocusedCell(r, colIdx) ==
    /\ nested # NoModal
    /\ nested.inner = NoInner
    /\ nested.editingCell = NoEdit
    /\ r < Len(tableData(nested.localData))
    /\ colIdx < Len(tableColumns(nested.localData))
    /\ Commit("nestedFocusCell", NoArg,
              setFocusedCell(App, [row |-> r, col |-> colIdx]))

\* the effects of the overlay's grid run after a render that changed their
\* dependencies
RunEffects ==
    /\ ~crashed
    /\ EffectsDue
    /\ nested' = runEffects(App).nested
    /\ UNCHANGED <<data, past, future, columns, schema, sortConfig, storage,
                   message, focusedCell, editingCell, cellInput, prevented,
                   footer, storageOk, crashed, inflight, lastEvent, lastArg,
                   trail, track, steps>>

\* a file is chosen, a file is dropped or the paste button is clicked
ReadStarted(route, granted, text) ==
    Commit(CASE route = "file" -> "fileChosen"
             [] route = "drop" -> "fileDropped"
             [] route = "paste" -> "pasteClicked",
           [NoArg EXCEPT !.text = text, !.flag = granted],
           startRead(App, route, granted, text))

\* a read started earlier completes; reads complete in any order
ReadCompleted(i) ==
    /\ i \in DOMAIN inflight
    /\ Commit(CASE inflight[i].route = "file" -> "fileLoaded"
                [] inflight[i].route = "drop" -> "dropLoaded"
                [] inflight[i].route = "paste" -> "paste",
              [NoArg EXCEPT !.text = inflight[i].text,
                            !.flag = inflight[i].granted],
              resumeRead(App, i))

\* the environment: local storage starts refusing writes (quota exceeded)
StorageFails ==
    /\ ~crashed
    /\ storageOk
    /\ storageOk' = FALSE
    /\ UNCHANGED <<data, past, future, columns, schema, sortConfig, storage,
                   message, focusedCell, editingCell, cellInput, prevented,
                   nested, footer, crashed, inflight, lastEvent, lastArg,
                   trail, track, steps>>

\* the environment: local storage accepts writes again
StorageRecovers ==
    /\ ~crashed
    /\ ~storageOk
    /\ storageOk' = TRUE
    /\ UNCHANGED <<data, past, future, columns, schema, sortConfig, storage,
                   message, focusedCell, editingCell, cellInput, prevented,
                   nested, footer, crashed, inflight, lastEvent, lastArg,
                   trail, track, steps>>

\* the state after construction with stored in local storage
Start(stored) ==
    /\ storage = stored
    /\ data = loadInitialData(storage)
    /\ past = <<>>
    /\ future = <<>>
    /\ columns = inferColumns(data)
    /\ schema = inferSchema(data)
    /\ sortConfig = NoSort
    /\ message = "none"
    /\ focusedCell = gridFocus(NoFocus, 0, Len(data))
    /\ editingCell = NoEdit
    /\ cellInput = NoInput
    /\ prevented = FALSE
    /\ nested = NoModal
    /\ footer = NoFooter
    /\ storageOk = TRUE
    /\ crashed = FALSE
    /\ inflight = <<>>
    /\ lastEvent = "init"
    /\ lastArg = NoArg
    /\ trail = <<>>
    /\ track = NoTrack
    /\ steps = 0

Init == \E stored \in {NoEntry, stringify(Dataset1)} : Start(stored)

Next ==
    \/ \E r \in 1..MaxRows, c \in {NA, NB, NC}, val \in EditValues :
          steps < MaxSteps /\ UpdateCell(r, c, val)
    \/ \E r \in 1..MaxRows : steps < MaxSteps /\ DeleteRow(r)
    \/ \E c \in {NA, NB, NC} : steps < MaxSteps /\ AddRow(c, <<"2">>)
    \/ steps < MaxSteps /\ Undo
    \/ steps < MaxSteps /\ Redo
    \/ \E c \in {NA, NB, NC} : steps < MaxSteps /\ Sort(c)
    \/ \E typed \in TypedNames, choice \in ColumnChoices :
          steps < MaxSteps /\ AddColumn(typed, choice)
    \/ \E c \in {NA, NB, NC}, typed \in TypedNames :
          steps < MaxSteps /\ RenameColumn(c, typed)
    \/ \E c \in {NA, NB, NC} : steps < MaxSteps /\ DeleteColumn(c)
    \/ \E newOrder \in Orders(columns) :
          steps < MaxSteps /\ ReorderColumns(newOrder)
    \/ \E confirmed \in BOOLEAN : steps < MaxSteps /\ ClearButton(confirmed)
    \/ \E confirmed \in BOOLEAN : steps < MaxSteps /\ ClearShortcut(confirmed)
    \/ \E text \in ImportTexts : steps < MaxSteps /\ FileLoaded(text)
    \/ \E text \in ImportTexts : steps < MaxSteps /\ DropLoaded(text)
    \/ \E granted \in BOOLEAN, text \in ImportTexts :
          steps < MaxSteps /\ PasteRead(granted, text)
    \/ \E targetIsInput \in BOOLEAN, text \in ImportTexts \cup {TextEmpty} :
          steps < MaxSteps /\ GlobalPaste(targetIsInput, text)
    \/ steps < MaxSteps /\ LoadDebugData(Dataset1)

Spec == Init /\ [][Next]_vars

(***************************************************************************)
(* The row operations and undo/redo alone, explored deeper: the sequences  *)
(* of addRow, updateCell and deleteRow calls followed by undo and redo.    *)
(***************************************************************************)
RowsNext ==
    \/ \E r \in 1..MaxRows, c \in {NA, NB}, val \in EditValues :
          steps < MaxEdits /\ UpdateCell(r, c, val)
    \/ \E r \in 1..MaxRows : steps < MaxEdits /\ DeleteRow(r)
    \/ \E c \in {NA, NB} : steps < MaxEdits /\ AddRow(c, <<"2">>)
    \/ steps < MaxEdits /\ Undo
    \/ steps < MaxEdits /\ Redo

RowsSpec == Init /\ [][RowsNext]_vars

(***************************************************************************)
(* The grid: keys and clicks in the table, the inline input, the nested    *)
(* overlay, and the document changes that move rows and columns under the  *)
(* focus.                                                                  *)
(***************************************************************************)
TableKeys ==
    {"ArrowUp", "ArrowDown", "ArrowLeft", "ArrowRight", "Tab", "Escape",
     "Enter", " ", "MetaEnter", "Delete", "Backspace"}

GridNext ==
    \/ \E key \in TableKeys, shiftKey \in BOOLEAN :
          steps < MaxKeys /\ TableKey(key, shiftKey)
    \/ \E r \in 0..(MaxRows - 1), c \in 0..2 :
          steps < MaxKeys /\ FocusCell(r, c)
    \/ \E r \in 0..(MaxRows - 1) : steps < MaxKeys /\ FocusDelete(r)
    \/ \E key \in {"Enter", "Tab", "Escape"}, shiftKey \in BOOLEAN,
          value \in EditTexts :
          steps < MaxKeys /\ InputKey(key, shiftKey, value)
    \/ \E value \in EditTexts : steps < MaxKeys /\ InputBlur(value)
    \/ \E rowIdx \in 0..1 : steps < MaxKeys /\ NestedDeleteRow(rowIdx)
    \/ steps < MaxKeys /\ CloseNested
    \/ \E r \in 1..MaxRows : steps < MaxKeys /\ PointerFree /\ DeleteRow(r)
    \/ \E c \in {NA, NB} :
          steps < MaxKeys /\ PointerFree /\ AddRow(c, <<"2">>)
    \/ \E c \in {NA, NB} : steps < MaxKeys /\ PointerFree /\ DeleteColumn(c)
    \/ steps < MaxKeys /\ Undo
    \/ steps < MaxKeys /\ Redo
    \/ \E text \in {TextArray(Dataset2), TextArray(Dataset4),
                    TextArray(Dataset6)} :
          steps < MaxKeys /\ FileLoaded(text)

GridSpec == Init /\ [][GridNext]_vars

(***************************************************************************)
(* The nested overlays: opened on the cells of stored rows that hold       *)
(* objects, edited two deep, with the row deletions and the undo and redo  *)
(* shortcuts of the table underneath.                                      *)
(***************************************************************************)
NestedInit == Start(stringify(Dataset5))

NestedNext ==
    \/ \E r \in 0..1, c \in {NA, NB} : steps < MaxNested /\ OpenNested(r, c)
    \/ \E r \in 0..1, c \in {KeyCol, ValueCol, NA} :
          steps < MaxNested /\ NestedStartEdit(r, c)
    \/ \E key \in {"Enter", "Escape"}, value \in NestedTexts :
          steps < MaxNested /\ NestedKey(key, value)
    \/ \E rowIdx \in 0..1 : steps < MaxNested /\ NestedDeleteRow(rowIdx)
    \/ steps < MaxNested /\ CloseNested
    \/ \E key \in {"Enter", "Escape"} :
          steps < MaxNested /\ TableKey(key, FALSE)
    \/ \E r \in 0..1, c \in 0..1 : steps < MaxNested /\ FocusCell(r, c)
    \/ \E key \in {"Enter", "Escape"}, value \in NestedTexts :
          steps < MaxNested /\ InputKey(key, FALSE, value)
    \/ \E r \in 1..2 : steps < MaxNested /\ PointerFree /\ DeleteRow(r)
    \/ steps < MaxNested /\ Undo
    \/ steps < MaxNested /\ Redo

NestedSpec == NestedInit /\ [][NestedNext]_vars

(***************************************************************************)
(* The footer: values typed and slash commands chosen in its inputs, the   *)
(* overlay opened from it for a row that is not added yet, and Enter.      *)
(***************************************************************************)
FooterNext ==
    \/ \E c \in {NA, NB}, text \in {<<"1">>, <<"/">>, <<>>} :
          steps < MaxFooter /\ FooterInput(c, text)
    \/ \E command \in {"text", "obj", "list"} :
          steps < MaxFooter /\ FooterCommand(command)
    \/ \E c \in {NA, NB}, key \in {"Enter", "Escape"} :
          steps < MaxFooter /\ FooterKey(c, key)
    \/ \E c \in {NA, NB} : steps < MaxFooter /\ FooterRemove(c)
    \/ \E c \in {NA, NB} : steps < MaxFooter /\ FooterEdit(c)
    \/ \E key \in {<<"a">>, <<>>}, value \in {<<"1">>, <<>>} :
          steps < MaxFooter /\ NestedAddRow(key, value)
    \/ \E r \in 0..1, c \in {KeyCol, ValueCol} :
          steps < MaxFooter /\ NestedStartEdit(r, c)
    \/ \E key \in {"Enter", "Escape"}, value \in NestedTexts :
          steps < MaxFooter /\ NestedKey(key, value)
    \/ \E rowIdx \in 0..1 : steps < MaxFooter /\ NestedDeleteRow(rowIdx)
    \/ steps < MaxFooter /\ CloseNested
    \/ steps < MaxFooter /\ Undo
    \/ steps < MaxFooter /\ Redo

FooterSpec == Init /\ [][FooterNext]_vars

(***************************************************************************)
(* The overlay's grid with its focus effects as steps of their own: rows   *)
(* deleted and cells clicked in the overlay, and the effects that follow   *)
(* each render. An effect that is due runs.                                *)
(***************************************************************************)
ClampNext ==
    \/ \E r \in 0..1, c \in {NA, NB} : steps < MaxClamp /\ OpenNested(r, c)
    \/ \E rowIdx \in 0..1 : steps < MaxClamp /\ ShrinkRows(rowIdx)
    \/ \E r \in 0..1, colIdx \in 0..1 :
          steps < MaxClamp /\ SetFocusedCell(r, colIdx)
    \/ steps < MaxClamp /\ CloseNested
    \/ RunEffects

ClampSpec == NestedInit /\ [][ClampNext]_vars /\ WF_vars(RunEffects)

(***************************************************************************)
(* The replacements of the whole document: every import route and the      *)
(* debug data, over documents of rows with different keys, a column whose  *)
(* first value is null, a column holding only null, no row at all and a    *)
(* null element, from every document a reload can find stored, with the    *)
(* events that give the old document a column order, a sort and a history. *)
(***************************************************************************)
ImportDocs ==
    {<<>>, Dataset1, Dataset2, Dataset6,
     <<NA :> Null, NA :> List(1)>>,
     <<(NC :> Obj(<<>>)) @@ (NA :> Null), (NB :> Str(1)) @@ (NA :> Null)>>,
     <<NullRow>>}

ImportDocTexts == {TextArray(d) : d \in ImportDocs} \cup {TextObject}

ImportInit ==
    \E d \in ImportDocs : ~hasNullRow(d) /\ Start(persist(d))

ImportNext ==
    \/ \E text \in ImportDocTexts : steps < MaxSteps /\ FileLoaded(text)
    \/ \E text \in ImportDocTexts : steps < MaxSteps /\ DropLoaded(text)
    \/ \E granted \in BOOLEAN, text \in ImportDocTexts :
          steps < MaxSteps /\ PasteRead(granted, text)
    \/ \E targetIsInput \in BOOLEAN, text \in ImportDocTexts :
          steps < MaxSteps /\ GlobalPaste(targetIsInput, text)
    \/ \E d \in ImportDocs :
          steps < MaxSteps /\ ~hasNullRow(d) /\ LoadDebugData(d)
    \/ \E r \in 1..MaxRows, c \in {NA, NB} :
          steps < MaxSteps /\ UpdateCell(r, c, Num(1))
    \/ \E c \in {NA, NB} : steps < MaxSteps /\ Sort(c)
    \/ \E newOrder \in Orders(columns) :
          steps < MaxSteps /\ ReorderColumns(newOrder)
    \/ steps < MaxSteps /\ Undo
    \/ steps < MaxSteps /\ ClearButton(TRUE)

ImportSpec == ImportInit /\ [][ImportNext]_vars

(***************************************************************************)
(* flattenObject and then unflattenObject applied to every object of up to *)
(* two keys without a dot (a, and the empty key) whose values are leaves   *)
(* or objects of the same kind nested up to MaxDepth deep. The object      *)
(* stays in the stored text, the rows hold what the functions return.      *)
(***************************************************************************)
Leaves == {Num(1), Null, List(1)}

RECURSIVE ObjectsUpTo(_)
ObjectsUpTo(d) ==
    LET vals == Leaves \cup
                (IF d = 0 THEN {} ELSE {Obj(e) : e \in ObjectsUpTo(d - 1)})
    IN  {<<>>}
        \cup {<<[key |-> k, value |-> v]>> : k \in {NA, <<>>}, v \in vals}
        \cup {<<[key |-> NA, value |-> v], [key |-> <<>>, value |-> w]>> :
                 v \in vals, w \in vals}

FlattenInit ==
    \E o \in ObjectsUpTo(MaxDepth) : Start(stringify(<<rowOf(o)>>))

\* A step that replaces the row by the object a function returned, or
\* reports that the function threw. The object is kept as returned, with
\* its property order, for the function applied next.
Applied(ev, result) ==
    /\ data' = IF result = Thrown THEN data ELSE <<rowOf(result)>>
    /\ message' = IF result = Thrown THEN "threw" ELSE "none"
    /\ lastEvent' = ev
    /\ lastArg' = [NoArg EXCEPT !.val = Obj(result)]
    /\ steps' = steps + 1
    /\ UNCHANGED <<past, future, columns, schema, sortConfig, storage,
                   focusedCell, editingCell, cellInput, prevented, nested,
                   footer, storageOk, crashed, inflight, trail, track>>

Flatten ==
    /\ lastEvent = "init"
    /\ Applied("flatten", flattenObject(entriesOf(data[1]), <<>>))

Unflatten ==
    /\ lastEvent = "flatten"
    /\ Applied("unflatten", unflattenObject(lastArg.val.v))

FlattenNext == Flatten \/ Unflatten

FlattenSpec == FlattenInit /\ [][FlattenNext]_vars

(***************************************************************************)
(* Sorting alone, from every stored document of up to MaxRows of the rows  *)
(* SortRows: values in either case, a number, a boolean, null, an object,  *)
(* a missing key, and two rows with the same value.                        *)
(***************************************************************************)
SortRows ==
    {NA :> Str(3), NA :> Str(6), NA :> Bool(TRUE), NA :> Null,
     NB :> Num(1), (NA :> Str(2)) @@ (NB :> Num(1)),
     (NA :> Str(2)) @@ (NB :> Num(2)), NA :> Obj(<<>>)}

SortInit ==
    \E n \in 1..MaxRows : \E rows \in [1..n -> SortRows] : Start(stringify(rows))

SortNext == \E c \in {NA, NB} : steps < MaxSteps /\ Sort(c)

SortSpec == SortInit /\ [][SortNext]_vars

(***************************************************************************)
(* The row operations, undo and redo while local storage refuses and       *)
(* accepts writes.                                                         *)
(***************************************************************************)
FaultNext ==
    \/ StorageFails
    \/ StorageRecovers
    \/ \E r \in 1..MaxRows, c \in {NA, NB}, val \in EditValues :
          steps < MaxSteps /\ UpdateCell(r, c, val)
    \/ \E r \in 1..MaxRows : steps < MaxSteps /\ DeleteRow(r)
    \/ \E c \in {NA, NB} : steps < MaxSteps /\ AddRow(c, <<"2">>)
    \/ steps < MaxSteps /\ Undo
    \/ steps < MaxSteps /\ Redo
    \/ \E text \in {TextArray(Dataset2)} : steps < MaxSteps /\ FileLoaded(text)

FaultSpec == Init /\ [][FaultNext]_vars

(***************************************************************************)
(* The asynchronous imports: reads of a file, of a dropped file and of the *)
(* clipboard are started, and complete later, between edits, deletions,    *)
(* undo and redo.                                                          *)
(***************************************************************************)
AsyncNext ==
    \/ \E route \in {"file", "drop"}, text \in {TextArray(Dataset2), TextMalformed} :
          steps < MaxKeys /\ ReadStarted(route, TRUE, text)
    \/ \E granted \in BOOLEAN, text \in {TextArray(Dataset2), TextObject} :
          steps < MaxKeys /\ ReadStarted("paste", granted, text)
    \/ \E i \in 1..MaxKeys : steps < MaxKeys /\ ReadCompleted(i)
    \/ \E r \in 1..MaxRows, c \in {NA, NB}, val \in EditValues :
          steps < MaxKeys /\ UpdateCell(r, c, val)
    \/ \E r \in 1..MaxRows : steps < MaxKeys /\ DeleteRow(r)
    \/ steps < MaxKeys /\ Undo
    \/ steps < MaxKeys /\ Redo

AsyncSpec == Init /\ [][AsyncNext]_vars

(***************************************************************************)
(* Properties.                                                             *)
(***************************************************************************)
\* the history as one record
History == [past |-> past, present |-> data, future |-> future]

\* C1: one undo after a run of addRow, updateCell and deleteRow calls makes
\* the rows equal to the rows before the last call of the run that changed
\* them: before the last call itself, or, when that call changed nothing,
\* before the call that did.
C1_UndoRevertsLastRowChange ==
    track.undoOf # <<>> => data = track.undoOf[1]

\* an undo has restored the rows before the last changing call, skipping a
\* later call that changed nothing
C1_Witness ==
    /\ lastEvent = "undo"
    /\ track.undoOf # <<>>
    /\ track.afterNoop
    /\ message = "undone"

\* C2: after a row operation that created a history entry, undo followed
\* directly by redo restores the rows, past and future of before the undo.
C2_UndoRedoIdentity ==
    track.redoOf # <<>> => History = track.redoOf[1]

\* a redo has followed the undo of a changing row operation
C2_Witness ==
    /\ lastEvent = "redo"
    /\ track.redoOf # <<>>
    /\ message = "redone"

\* C3: after an accepted import (file, paste, drop, dataset load) of rows X,
\* past and future are empty and the rows are X, and they stay so through
\* every undo and redo that follows.
C3_ImportResetsHistory ==
    track.imported # <<>> =>
        /\ data = track.imported[1]
        /\ past = <<>>
        /\ future = <<>>

\* an undo was issued after an import that replaced a document with history
C3_Witness ==
    /\ lastEvent = "undo"
    /\ track.imported # <<>>
    /\ track.hadHistory

\* C4: past never holds more than the limit; a changing set that meets a
\* full past drops the oldest snapshot, and from then on undo and redo move
\* among exactly limit snapshots besides the present.
C4_PastBounded ==
    /\ [](/\ Len(past) <= HistoryLimit
          /\ track.evicted => Len(past) + Len(future) = HistoryLimit)
    /\ [][(/\ lastEvent' \in SetEvents
           /\ data' # data
           /\ Len(past) = HistoryLimit)
          => past' = Append(Tail(past), data)]_vars

\* after an eviction, undo has been repeated until past is empty
C4_Witness ==
    /\ lastEvent = "undo"
    /\ track.evicted
    /\ past = <<>>
    /\ Len(future) = HistoryLimit

\* C5: a set whose result equals the present leaves past, present and
\* future unchanged; updateCell with the value the cell already holds, a
\* list included, is such a set.
C5_EqualSetIsNoOp ==
    [][/\ (lastEvent' \in SetEvents /\ data' = data)
          => (past' = past /\ future' = future)
       /\ lastEvent' = "updateCell" =>
            \A r \in DOMAIN data, c \in {NA, NB, NC} :
              (/\ c \in DOMAIN data[r]
               /\ data[r][c] = lastArg'.val
               /\ UpdateCell(r, c, lastArg'.val))
              => UNCHANGED <<data, past, future>>]_vars

\* updateCell has written a list equal to the stored one into a document
\* that has both undo and redo history
C5_Witness ==
    /\ lastEvent = "updateCell"
    /\ lastArg.val = List(1)
    /\ track.noop
    /\ past # <<>>
    /\ future # <<>>

\* C6: a set that changes the rows empties future, and a redo right after
\* it changes nothing.
C6_ChangingSetClearsFuture ==
    [][/\ (lastEvent' \in SetEvents /\ data' # data) => future' = <<>>
       /\ (/\ lastEvent \in SetEvents
           /\ ~track.noop
           /\ lastEvent' = "redo")
          => UNCHANGED <<data, past, future>>]_vars

\* undo, then a changing row operation, then a redo that changed nothing
C6_Witness ==
    /\ Len(trail) = 3
    /\ trail[1].ev = "undo" /\ trail[1].changed
    /\ trail[2].ev \in RowEvents /\ trail[2].changed
    /\ trail[3].ev = "redo" /\ ~trail[3].changed
    /\ future = <<>>

\* C7 as stated: a column add, rename or delete adds no entry to past.
C7_ColumnOpsLeavePast ==
    [][lastEvent' \in ColumnEvents => past' = past]_vars

\* C7: a column add, rename or delete that changes the rows pushes the rows
\* of before it onto past and empties future; an undo right after it
\* restores those rows and leaves Column Set and Schema as the column
\* operation set them.
C7_ColumnOpsPushRows ==
    [][/\ (lastEvent' \in ColumnEvents /\ data' # data)
          => /\ past' # <<>>
             /\ past'[Len(past')] = data
             /\ Len(past') = IF Len(past) < HistoryLimit
                             THEN Len(past) + 1 ELSE HistoryLimit
             /\ future' = <<>>
       /\ (/\ lastEvent \in ColumnEvents
           /\ track.base # <<>>
           /\ ~track.noop
           /\ lastEvent' = "undo")
          => /\ data' = track.base[1]
             /\ columns' = columns
             /\ schema' = schema]_vars

\* an undo has reverted the rows of a column operation
C7_Witness ==
    /\ lastEvent = "undo"
    /\ Len(trail) >= 2
    /\ trail[Len(trail) - 1].ev \in ColumnEvents
    /\ trail[Len(trail) - 1].changed
    /\ trail[Len(trail)].changed
    /\ columns # inferColumns(data)

\* C8: an import whose text is not valid JSON, or not an array, leaves
\* rows, Column Set, Schema, sort state, past and future as they were.
C8_RejectedImportChangesNothing ==
    [][(lastEvent' \in ImportEvents /\ lastArg'.text.kind # "array")
       => UNCHANGED <<data, columns, schema, sortConfig, past, future>>]_vars

\* an import was rejected on a document with history and a sort state
C8_Witness ==
    /\ lastEvent \in ImportEvents
    /\ lastArg.text.kind \in {"malformed", "object"}
    /\ message = "invalid-json"
    /\ past # <<>>
    /\ sortConfig # NoSort

\* C9: after a confirmed clear, from the button or the shortcut, there are
\* no rows, no columns, no schema, no past, no future and no stored entry.
C9_ClearDestroysDocument ==
    (lastEvent \in {"clearButton", "clearShortcut"} /\ lastArg.flag) =>
        /\ data = <<>>
        /\ columns = <<>>
        /\ DOMAIN schema = {}
        /\ past = <<>>
        /\ future = <<>>
        /\ storage = NoEntry

\* a name the column operations must refuse
RefusedName(name, existing) ==
    \/ name = <<>>
    \/ \E i \in DOMAIN name : name[i] = " "
    \/ \E j \in DOMAIN existing : existing[j] = name

NameErrors ==
    {"name-empty", "name-spaces", "name-duplicate",
     "form-name-empty", "form-name-spaces", "form-name-exists"}

\* C10: adding or renaming a column with a name that is empty, holds a
\* space or names an existing column reports an error and leaves rows,
\* Column Set, Schema, sort state and history as they were.
C10_InvalidNameRejected ==
    [][lastEvent' \in {"addColumn", "renameColumn"} =>
         \A typed \in TypedNames :
           RefusedName(trim(typed), columns) =>
             /\ \A choice \in ColumnChoices :
                  AddColumn(typed, choice) =>
                    /\ UNCHANGED <<data, columns, schema, sortConfig, past,
                                   future, storage>>
                    /\ message' \in NameErrors
             /\ \A c \in {NA, NB, NC} :
                  RenameColumn(c, typed) =>
                    /\ UNCHANGED <<data, columns, schema, sortConfig, past,
                                   future, storage>>
                    /\ message' \in NameErrors]_vars

\* a column name was refused on a document that has history
C10_Witness ==
    /\ lastEvent \in {"addColumn", "renameColumn"}
    /\ message \in NameErrors
    /\ past # <<>>

\* the names of the Column Set
ColumnNames == {columns[i] : i \in DOMAIN columns}

\* C11: every name of the Column Set is non-empty, holds no space and
\* occurs once.
C11_ColumnNamesWellFormed ==
    \A i \in DOMAIN columns :
        /\ columns[i] # <<>>
        /\ \A k \in DOMAIN columns[i] : columns[i][k] # " "
        /\ \A j \in DOMAIN columns : columns[j] = columns[i] => j = i

\* C12: the names of the Column Set are the keys of the Schema.
C12_ColumnsMatchSchema == ColumnNames = DOMAIN schema

\* a rename has replaced a name in a Column Set of two names
C12_Witness ==
    /\ lastEvent = "renameColumn"
    /\ message = "column-renamed"
    /\ Len(columns) = 2

\* C14: the stored entry is absent when there are no rows and is the
\* serialization of the rows otherwise; it never holds an empty array.
C14_StorageFollowsRows ==
    /\ data = <<>> => storage = NoEntry
    /\ data # <<>> => storage = [kind |-> "array", rows |-> data]
    /\ storage # [kind |-> "array", rows |-> <<>>]

\* the rows were emptied by an event and the stored entry is gone
C14_Witness ==
    /\ Len(trail) >= 1
    /\ trail[Len(trail)].changed
    /\ data = <<>>
    /\ storage = NoEntry

(***************************************************************************)
(* C17. Whenever a cell is focused after an event, its row lies within the *)
(* rows and its column index within 0..columnCount (columnCount being the  *)
(* delete-control slot).                                                   *)
(***************************************************************************)
C17_FocusInRange ==
    focusedCell # NoFocus =>
        /\ 0 <= focusedCell.row
        /\ focusedCell.row < Len(data)
        /\ 0 <= focusedCell.col
        /\ focusedCell.col <= Len(columns)

(***************************************************************************)
(* C19. With a cell focused and no edit open, Tab moves to the next slot   *)
(* of the row (the delete-control slot follows the last data column), from *)
(* the delete slot to the first cell of the next row, and from the delete  *)
(* slot of the last row to Idle, leaving the platform default alone;       *)
(* Shift+Tab goes the same way backwards, from (r, 0) to the delete slot   *)
(* of row r - 1 and from (0, 0) to Idle. Within the grid Shift+Tab undoes  *)
(* Tab.                                                                    *)
(***************************************************************************)
Cell(r, c) == [row |-> r, col |-> c]

TabPressed(shiftKey) ==
    /\ lastEvent' = "tableKey"
    /\ lastArg'.key = "Tab"
    /\ lastArg'.flag = shiftKey
    /\ focusedCell # NoFocus
    /\ editingCell = NoEdit

ArrowPressed(key) ==
    /\ lastEvent' = "tableKey"
    /\ lastArg'.key = key
    /\ focusedCell # NoFocus
    /\ editingCell = NoEdit

ArrowTarget(key) ==
    LET row == focusedCell.row
        col == focusedCell.col
    IN  CASE key = "ArrowUp" -> IF row > 0 THEN Cell(row - 1, col) ELSE focusedCell
          [] key = "ArrowDown" ->
                IF row < Len(data) - 1 THEN Cell(row + 1, col) ELSE focusedCell
          [] key = "ArrowLeft" -> IF col > 0 THEN Cell(row, col - 1) ELSE focusedCell
          [] key = "ArrowRight" ->
                IF col < Len(columns) THEN Cell(row, col + 1) ELSE focusedCell

C13_OneStepPerEvent ==
    /\ [](cellInput.saves <= 1)
    /\ [][lastEvent' \notin {"undo", "redo"} \cup ImportEvents =>
            \/ <<past, data, future>>' = <<past, data, future>>
            \/ /\ data' # data
               /\ past' = pushPast(past, data, historyLimit)
               /\ future' = <<>>]_vars

\* Tab in the input committed a changed value: one save, one snapshot
C13_Witness ==
    /\ lastEvent = "inputKey"
    /\ lastArg.key = "Tab"
    /\ cellInput.saves = 1
    /\ cellInput.isSaving
    /\ editingCell = NoEdit
    /\ trail[Len(trail)].changed
    /\ Len(past) = 1

(***************************************************************************)
(* C18. When the rows of a grid shrink, a focus whose row is out of range  *)
(* moves to the new last row and keeps its column, and no cell is focused  *)
(* when no rows remain. This is stated for App's grid and for the grid of  *)
(* the nested overlay.                                                     *)
(***************************************************************************)
C18_ShrinkClampsFocus ==
    /\ [](Len(data) = 0 => focusedCell = NoFocus)
    /\ [](nested # NoModal /\ tableData(nested.localData) = <<>>
          => nested.focus = NoFocus)
    /\ [][/\ lastEvent' \in {"deleteRow", "undo", "redo", "tableKey"}
          /\ Len(data') < Len(data)
          /\ Len(data') > 0
          /\ focusedCell # NoFocus
          => focusedCell' =
                IF focusedCell.row >= Len(data')
                THEN [row |-> Len(data') - 1, col |-> focusedCell.col]
                ELSE focusedCell]_vars

(***************************************************************************)
(* C15. A local-storage write that fails does not stop the editor: the     *)
(* application stays mounted, so that every later operation is accepted    *)
(* and the next change of the rows attempts the write again.               *)
(***************************************************************************)
C15_FailedWriteKeepsEditing == ~crashed

(***************************************************************************)
(* C16. When a read started earlier completes, whatever edits, deletions,  *)
(* undos, redos and other imports came in between, the handler either      *)
(* replaces the whole document by the rows of the text read, with empty    *)
(* past and future and the columns and schema of those rows, or (text      *)
(* refused, clipboard denied) leaves rows, history and columns alone.      *)
(***************************************************************************)
C16_ResumedImportReplacesAll ==
    [][lastEvent' \in {"fileLoaded", "dropLoaded", "paste"} =>
          IF message' = "imported"
          THEN /\ safeParseJSON(lastArg'.text).ok
               /\ data' = safeParseJSON(lastArg'.text).rows
               /\ past' = <<>>
               /\ future' = <<>>
               /\ columns' = inferColumns(data')
               /\ schema' = inferSchema(data')
          ELSE <<data, past, future, columns, schema>>' =
               <<data, past, future, columns, schema>>]_vars

\* a file was chosen, a row operation changed the rows, then the read
\* completed and its rows are the document
C16_Witness ==
    /\ Len(trail) = 3
    /\ trail[1].ev = "fileChosen"
    /\ trail[2].ev \in {"updateCell", "deleteRow"}
    /\ trail[2].changed
    /\ trail[3].ev = "fileLoaded"
    /\ message = "imported"
    /\ data = Dataset2
    /\ past = <<>>
    /\ inflight = <<>>

(***************************************************************************)
(* C21. Enter or Space with a data cell focused and no edit open starts    *)
(* the inline edit of exactly that cell and leaves rows and history alone; *)
(* on the delete-control slot it deletes the focused row at once and       *)
(* starts no edit.                                                         *)
(***************************************************************************)
ActivatePressed ==
    /\ lastEvent' = "tableKey"
    /\ lastArg'.key \in {"Enter", " "}
    /\ focusedCell # NoFocus
    /\ editingCell = NoEdit

FocusedName == columns[focusedCell.col + 1]

FocusedValueNested ==
    LET row == data[focusedCell.row + 1]
    IN  /\ FocusedName \in DOMAIN row
        /\ ~isPrimitive(row[FocusedName])
        /\ row[FocusedName].t # "list"
        /\ row[FocusedName] # Objs(0)

DeleteSlotActivated ==
    ActivatePressed /\ focusedCell.col = Len(columns) =>
        /\ data' = splice1(data, focusedCell.row + 1)
        /\ Len(data') = Len(data) - 1
        /\ editingCell' = NoEdit
        /\ nested' = NoModal

C21_EnterStartsEdit ==
    /\ [][ActivatePressed /\ focusedCell.col < Len(columns) =>
            /\ editingCell' = [row |-> focusedCell.row, col |-> FocusedName]
            /\ <<data, past, future>>' = <<data, past, future>>]_vars
    /\ [][DeleteSlotActivated]_vars

\* The statement that holds: a cell holding an object, or an array with an
\* element that is not a primitive, opens the nested overlay on that cell
\* instead and starts no inline edit; every other data cell is edited inline.
C21_EnterStartsEditOrOverlay ==
    /\ [][ActivatePressed /\ focusedCell.col < Len(columns) =>
            /\ <<data, past, future, focusedCell>>' =
               <<data, past, future, focusedCell>>
            /\ IF FocusedValueNested
               THEN /\ editingCell' = NoEdit
                    /\ nested' # NoModal
                    /\ nested'.rowIdx = focusedCell.row
                    /\ nested'.col = FocusedName
               ELSE /\ editingCell' =
                          [row |-> focusedCell.row, col |-> FocusedName]
                    /\ nested' = NoModal]_vars
    /\ [][DeleteSlotActivated]_vars

\* Space on the second column of a row started the edit of that cell
C21_Witness ==
    /\ lastEvent = "tableKey"
    /\ lastArg.key = " "
    /\ focusedCell.col = 1
    /\ Len(columns) = 2
    /\ editingCell = [row |-> focusedCell.row, col |-> columns[2]]
    /\ cellInput.saves = 0

\* the overlay on top, when one is open
topFrame == IF nested.inner = NoInner THEN nested ELSE nested.inner

EscapeInGrid ==
    /\ lastEvent' = "tableKey"
    /\ lastArg'.key = "Escape"
    /\ focusedCell # NoFocus
    /\ editingCell = NoEdit

EscapeInInput == lastEvent' = "inputKey" /\ lastArg'.key = "Escape"

EscapeInOverlayInput ==
    /\ lastEvent' = "nestedKey"
    /\ lastArg'.key = "Escape"
    /\ topFrame.editingCell # NoEdit

(***************************************************************************)
(* C22. Escape with a cell focused and no edit open leaves no cell         *)
(* focused. Escape in the input of an edit discards the typed text: the    *)
(* input saves nothing, not even on the blur that follows, rows and        *)
(* history stay as they were, the edit is closed and the focus is on the   *)
(* cell that was edited. In the input of an overlay's grid the same holds  *)
(* for the overlay's value, and the overlay and every overlay under it     *)
(* stay open on the cells they were opened on.                             *)
(***************************************************************************)
C22_EscapeDiscards ==
    [][/\ EscapeInGrid =>
              /\ focusedCell' = NoFocus
              /\ editingCell' = NoEdit
              /\ data' = data /\ past' = past /\ future' = future
       /\ EscapeInInput =>
              /\ cellInput'.saves = 0
              /\ data' = data /\ past' = past /\ future' = future
              /\ editingCell' = NoEdit
              /\ focusedCell' = [row |-> editingCell.row,
                                 col |-> indexOf(columns, editingCell.col)]
       /\ EscapeInOverlayInput =>
              /\ cellInput'.saves = 0
              /\ data' = data /\ past' = past /\ future' = future
              /\ nested' # NoModal
              /\ (nested'.inner = NoInner) = (nested.inner = NoInner)
              /\ nested'.rowIdx = nested.rowIdx /\ nested'.col = nested.col
              /\ nested'.inner.rowIdx = nested.inner.rowIdx
              /\ nested'.inner.col = nested.inner.col
              /\ nested'.localData = nested.localData
              /\ nested'.inner.localData = nested.inner.localData
              /\ topFrame'.editingCell = NoEdit
              /\ topFrame'.focus =
                     [row |-> topFrame.editingCell.row,
                      col |-> indexOf(tableColumns(topFrame.localData),
                                      topFrame.editingCell.col)]]_vars

EnterInInput ==
    /\ lastEvent' = "inputKey"
    /\ lastArg'.key = "Enter"
    /\ InputLive

\* rows with the cell (r, c) (r from 0) holding val and nothing else changed
RowsWithCell(rows, r, c, val) ==
    [i \in DOMAIN rows |-> IF i = r + 1 THEN WithKey(rows[i], c, val) ELSE rows[i]]

(***************************************************************************)
(* C23. Enter in the input of Editing(row, colName) saves once: the rows   *)
(* afterwards are the rows before with the edited cell holding the typed   *)
(* text coerced by the shape of the value the cell held and no other cell  *)
(* changed, the edit is closed and the focus is on the edited cell.        *)
(***************************************************************************)
C23_EnterCommits ==
    [][EnterInInput =>
          /\ cellInput'.saves = 1
          /\ data' = RowsWithCell(data, editingCell.row, editingCell.col,
                                  cellFinalValue(data, editingCell.row,
                                                 editingCell.col,
                                                 lastArg'.typed))
          /\ editingCell' = NoEdit
          /\ focusedCell' = [row |-> editingCell.row,
                             col |-> indexOf(columns, editingCell.col)]]_vars

DeletePressed ==
    /\ lastEvent' = "tableKey"
    /\ lastArg'.key \in {"Delete", "Backspace"}
    /\ focusedCell # NoFocus
    /\ editingCell = NoEdit
    /\ focusedCell.row < Len(data)
    /\ focusedCell.col <= Len(columns)

HoldsNested(val) ==
    \/ val.t = "object"
    \/ val.t = "objects" /\ val.v # <<>>

\* the value of the cell (r, c) of rows (r from 0), Null when the row has no c
ValueAt(rows, r, c) == IF c \in DOMAIN rows[r + 1] THEN rows[r + 1][c] ELSE Null

StartsEditInGrid ==
    /\ lastEvent' = "tableKey"
    /\ lastArg'.key \in {"Enter", " "}
    /\ focusedCell # NoFocus
    /\ editingCell = NoEdit
    /\ focusedCell.row < Len(data)
    /\ focusedCell.col < Len(columns)

StartsEditInOverlay == lastEvent' = "nestedStartEdit" /\ nested.inner = NoInner

OverlayEdit ==
    \/ /\ lastEvent' = "nestedKey"
       /\ lastArg'.key = "Enter"
       /\ topFrame.editingCell # NoEdit
    \/ lastEvent' = "nestedDeleteRow"

(***************************************************************************)
(* C26. After every edit made in an overlay, one or two levels deep (a     *)
(* committed cell edit, a deleted row), the cell the overlay was opened on *)
(* holds the overlay's value and the parent's rows differ from what they   *)
(* were in that cell alone; for an overlay opened from an overlay's grid   *)
(* the same holds between it and the rows of the overlay underneath.       *)
(***************************************************************************)
C26_OverlayEditsReachParent ==
    [][OverlayEdit =>
          /\ nested' # NoModal
          /\ nested'.rowIdx = nested.rowIdx /\ nested'.col = nested.col
          /\ nested.rowIdx < Len(data')
          /\ ValueAt(data', nested.rowIdx, nested.col) = nested'.localData
          /\ data' = RowsWithCell(data, nested.rowIdx, nested.col,
                                  nested'.localData)
          /\ nested.inner # NoInner =>
                /\ nested'.inner # NoInner
                /\ ValueAt(tableData(nested'.localData), nested.inner.rowIdx,
                           nested.inner.col) = nested'.inner.localData
                /\ tableData(nested'.localData) =
                      RowsWithCell(tableData(nested.localData),
                                   nested.inner.rowIdx, nested.inner.col,
                                   nested'.inner.localData)]_vars

ObjectShown == nested # NoModal /\ topFrame.localData.t = "object"

ObjectCellCommitted(col) ==
    /\ lastEvent' = "nestedKey"
    /\ lastArg'.key = "Enter"
    /\ ObjectShown
    /\ topFrame.editingCell # NoEdit
    /\ topFrame.editingCell.col = col

(***************************************************************************)
(* C27. An overlay on a plain object shows the columns key and value and   *)
(* one row per property, in the order of the properties. A committed edit  *)
(* of the key of row i leaves the number of properties and every other     *)
(* property as they were and gives property i the typed text as its key    *)
(* with the value it had; a committed edit of the value of row i changes   *)
(* the value of property i alone.                                          *)
(***************************************************************************)
C27_ObjectOverlayEdits ==
    /\ [](ObjectShown =>
             /\ tableColumns(topFrame.localData) = <<KeyCol, ValueCol>>
             /\ Len(tableData(topFrame.localData)) = Len(topFrame.localData.v)
             /\ \A i \in DOMAIN topFrame.localData.v :
                   /\ DOMAIN tableData(topFrame.localData)[i] = {KeyCol, ValueCol}
                   /\ tableData(topFrame.localData)[i][KeyCol] =
                         StrOf(topFrame.localData.v[i].key)
                   /\ tableData(topFrame.localData)[i][ValueCol] =
                         topFrame.localData.v[i].value)
    /\ [][/\ ObjectCellCommitted(KeyCol) =>
                LET i == topFrame.editingCell.row + 1
                    old == topFrame.localData.v
                    new == topFrame'.localData.v
                IN  /\ Len(new) = Len(old)
                    /\ new[i] = [key |-> lastArg'.typed, value |-> old[i].value]
                    /\ \A j \in DOMAIN old : j # i => new[j] = old[j]
          /\ ObjectCellCommitted(ValueCol) =>
                LET i == topFrame.editingCell.row + 1
                    old == topFrame.localData.v
                    new == topFrame'.localData.v
                IN  /\ Len(new) = Len(old)
                    /\ new[i].key = old[i].key
                    /\ \A j \in DOMAIN old : j # i => new[j] = old[j]]_vars

\* seq without its elements equal to x, order kept
Without(seq, x) == SelectSeq(seq, LAMBDA y : y # x)

(***************************************************************************)
(* C28. Deleting the column name leaves the Column Set as it was without   *)
(* name, in the same order, takes name out of the Schema and leaves every  *)
(* other entry, and leaves the same rows in the same order, each without   *)
(* the key name and with its other keys and values as they were. The       *)
(* overlay's column delete makes the same rows of an array.                *)
(***************************************************************************)
C28_DeleteColumnRemovesKey ==
    [][lastEvent' = "deleteColumn" =>
          LET name == lastArg'.cell.col
          IN  /\ columns' = Without(columns, name)
              /\ ~includes(columns', name)
              /\ DOMAIN schema' = DOMAIN schema \ {name}
              /\ \A k \in DOMAIN schema' : schema'[k] = schema[k]
              /\ Len(data') = Len(data)
              /\ \A i \in DOMAIN data :
                    /\ DOMAIN data'[i] = DOMAIN data[i] \ {name}
                    /\ \A k \in DOMAIN data'[i] : data'[i][k] = data[i][k]
              /\ nestedHandleDeleteColumn(ObjArr(data), name) = ObjArr(data')]_vars

\* a column some row had a value in was deleted from a table of two rows and
\* another column is left
C28_Witness ==
    /\ lastEvent = "deleteColumn"
    /\ trail[Len(trail)].changed
    /\ Len(data) >= 2
    /\ columns # <<>>
    /\ \E i \in DOMAIN data : DOMAIN data[i] # {}

\* the rename form of column old was submitted with a name that is valid:
\* not empty once trimmed, without a space, and no other column's name
ValidRename ==
    /\ lastEvent' = "renameColumn"
    /\ trim(lastArg'.typed) # <<>>
    /\ \A i \in DOMAIN trim(lastArg'.typed) : trim(lastArg'.typed)[i] # " "
    /\ \A i \in DOMAIN columns :
          columns[i] = trim(lastArg'.typed) => columns[i] = lastArg'.cell.col

(***************************************************************************)
(* C29. A rename of column old to a valid name new is carried out, the     *)
(* column's own name included: the Column Set holds new where it held old, *)
(* the Schema holds old's type under new and no entry old, every row that  *)
(* had the key old has its value under new instead, and every row without  *)
(* old is unchanged.                                                       *)
(***************************************************************************)
C29_RenameMovesKey ==
    [][ValidRename =>
          LET old == lastArg'.cell.col
              new == trim(lastArg'.typed)
          IN  /\ message' = "column-renamed"
              /\ columns' = [i \in DOMAIN columns |->
                                IF columns[i] = old THEN new ELSE columns[i]]
              /\ DOMAIN schema' = (DOMAIN schema \ {old}) \cup {new}
              /\ old \in DOMAIN schema => schema'[new] = schema[old]
              /\ \A k \in DOMAIN schema' \ {new} : schema'[k] = schema[k]
              /\ Len(data') = Len(data)
              /\ \A i \in DOMAIN data :
                    IF old \in DOMAIN data[i]
                    THEN /\ DOMAIN data'[i] = (DOMAIN data[i] \ {old}) \cup {new}
                         /\ data'[i][new] = data[i][old]
                         /\ \A k \in DOMAIN data'[i] \ {new} :
                               data'[i][k] = data[i][k]
                    ELSE data'[i] = data[i]]_vars

\* row has a value at col: the key is there and does not hold null
HasValue(row, col) == col \in DOMAIN row /\ row[col] # Null

\* the lowercased string form of row's value at col
SortKey(row, col) == lowerString(row[col])

\* rows a and b have equal values at col: equal lowercased string forms,
\* both null, or both without the key
EqualAt(a, b, col) ==
    \/ HasValue(a, col) /\ HasValue(b, col) /\ SortKey(a, col) = SortKey(b, col)
    \/ col \notin DOMAIN a /\ col \notin DOMAIN b
    \/ col \in DOMAIN a /\ col \in DOMAIN b /\ a[col] = Null /\ b[col] = Null

(***************************************************************************)
(* C30. A sort by col leaves a permutation of the rows in which the rows   *)
(* with a value at col come in the order of the lowercased string forms of *)
(* those values, ascending or descending as the sort says, every row whose *)
(* value is null or missing comes after every row with a value in both     *)
(* directions, and rows with equal values are in the order they were in.   *)
(***************************************************************************)
C30_SortOrdersRows ==
    [][lastEvent' = "sort" =>
          LET col == lastArg'.cell.col
              asc == sortConfig'.direction = "asc"
          IN  /\ sortConfig'.column = col
              /\ Len(data') = Len(data)
              /\ \E p \in [DOMAIN data -> DOMAIN data] :
                    /\ \A i, j \in DOMAIN data : i # j => p[i] # p[j]
                    /\ \A i \in DOMAIN data : data'[i] = data[p[i]]
                    /\ \A i, j \in DOMAIN data :
                          i < j /\ EqualAt(data'[i], data'[j], col)
                             => p[i] < p[j]
              /\ \A i, j \in DOMAIN data' :
                    i < j =>
                       /\ HasValue(data'[j], col) => HasValue(data'[i], col)
                       /\ HasValue(data'[i], col) /\ HasValue(data'[j], col) =>
                             IF asc
                             THEN ~StrLess(SortKey(data'[j], col),
                                           SortKey(data'[i], col))
                             ELSE ~StrLess(SortKey(data'[i], col),
                                           SortKey(data'[j], col))]_vars

\* a descending sort moved rows and left a row without a value last, behind
\* two rows with different values
C30_Witness ==
    /\ lastEvent = "sort"
    /\ sortConfig.direction = "desc"
    /\ trail[Len(trail)].changed
    /\ Len(data) = 3
    /\ ~HasValue(data[3], sortConfig.column)
    /\ HasValue(data[1], sortConfig.column)
    /\ HasValue(data[2], sortConfig.column)
    /\ StrLess(SortKey(data[2], sortConfig.column),
               SortKey(data[1], sortConfig.column))

\* the last event replaced the whole document: the application started from
\* the stored entry, or an import route was given the text of an array
Replaced ==
    \/ lastEvent = "init"
    \/ /\ lastEvent \in {"fileLoaded", "dropLoaded", "loadDebugData"}
       /\ lastArg.text.kind = "array"
    \/ lastEvent = "paste" /\ lastArg.flag /\ lastArg.text.kind = "array"
    \/ lastEvent = "globalPaste" /\ ~lastArg.flag /\ lastArg.text.kind = "array"

\* the keys of the rows; an element that is not an object has none
RowKeys(rows) ==
    UNION {DOMAIN rows[i] : i \in {j \in DOMAIN rows : rows[j] # NullRow}}

\* the type the Schema is to give column k of rows
FirstValueType(rows, k) ==
    LET holds(i) == k \in DOMAIN rows[i] /\ rows[i][k] # Null
    IN  IF \A i \in DOMAIN rows : ~holds(i) THEN "text"
        ELSE LET first == CHOOSE i \in DOMAIN rows :
                             holds(i) /\ \A j \in 1..(i - 1) : ~holds(j)
                 val == rows[first][k]
             IN  IF val.t \in {"list", "objects"} THEN "list"
                 ELSE IF val.t \in {"object", "boolean", "number"} THEN val.t
                 ELSE "text"

\* the columns, the schema, the sort and the history are those of rows
\* freshly loaded
DerivedFrom(rows) ==
    /\ data = rows
    /\ {columns[i] : i \in DOMAIN columns} = RowKeys(rows)
    /\ Len(columns) = Cardinality(RowKeys(rows))
    /\ \A i, j \in DOMAIN columns : i < j => StrLess(columns[i], columns[j])
    /\ DOMAIN schema = RowKeys(rows)
    /\ \A k \in RowKeys(rows) : schema[k] = FirstValueType(rows, k)
    /\ sortConfig = NoSort
    /\ past = <<>>
    /\ future = <<>>

(***************************************************************************)
(* C31. After every replacement of the whole document (a file, a drop, a   *)
(* paste, the debug data, the start from the stored entry) the rows are    *)
(* the new ones, the Column Set is exactly the set of keys of the rows,    *)
(* the Schema gives each column the type of its first value that is not    *)
(* null or absent (text when there is none), and no column order, schema   *)
(* entry, sort or history of the document before is left.                  *)
(***************************************************************************)
C31_ReplacementDerivesAll ==
    Replaced =>
        DerivedFrom(IF lastEvent = "init" THEN loadInitialData(storage)
                    ELSE lastArg.text.rows)

\* the grid is shown with no focused cell and no edit
Idle == GridShown /\ focusedCell = NoFocus /\ editingCell = NoEdit

\* the event handled by the step is one by which the user enters the grid
\* again: an arrow key, or a click on a cell or on a row's delete button
ReEntered ==
    \/ lastEvent' = "tableKey"
       /\ lastArg'.key \in {"ArrowUp", "ArrowDown", "ArrowLeft", "ArrowRight"}
    \/ lastEvent' \in {"focusCell", "focusDelete", "deleteRow"}

(***************************************************************************)
(* C32. When the rows first become non-empty the focus is on (0, 0) and no *)
(* cell is edited; an Escape pressed on a focused cell leaves the grid     *)
(* Idle; and an Idle grid stays Idle, whatever rows are added or removed,  *)
(* until the user enters it again with an arrow key or a click.            *)
(***************************************************************************)
C32_IdleUntilReEntry ==
    /\ [](lastEvent = "init" /\ GridShown =>
             focusedCell = [row |-> 0, col |-> 0] /\ editingCell = NoEdit)
    /\ [][/\ (~GridShown /\ Len(data') > 0 /\ ~crashed') =>
                focusedCell' = [row |-> 0, col |-> 0] /\ editingCell' = NoEdit
          /\ (/\ lastEvent' = "tableKey"
              /\ lastArg'.key = "Escape"
              /\ focusedCell # NoFocus
              /\ editingCell = NoEdit) => Idle'
          /\ (Idle /\ Len(data') > 0 /\ ~ReEntered) => Idle']_vars

\* the step is a save of the open input: Enter or Tab in it, or its blur,
\* while it has neither saved nor been cancelled
InlineCommit ==
    /\ InputLive
    /\ \/ lastEvent' = "inputKey" /\ lastArg'.key \in {"Enter", "Tab"}
       \/ lastEvent' = "inputBlur"
    /\ cellInput'.saves = cellInput.saves + 1

\* the value an edit to text is to commit to a cell that held original
\* (<<v>> for a value v, <<>> for a missing key)
CoercedEdit(original, text) ==
    IF original = <<>> THEN StrOf(text)
    ELSE IF original[1].t \in {"list", "objects"} THEN parseArrayInput(text)
    ELSE IF original[1].t = "number"
    THEN (IF isNumeric(text) THEN Num(Number(text)) ELSE StrOf(text))
    ELSE IF original[1].t = "boolean"
    THEN (IF toLowerCase(text) = <<"t", "r", "u", "e">> THEN Bool(TRUE)
          ELSE Bool(FALSE))
    ELSE StrOf(text)

(***************************************************************************)
(* C33. The value an inline edit commits depends on the value the cell     *)
(* held: a list gives parseArrayInput(text); a number gives Number(text),  *)
(* or the text itself when that is NaN; a boolean gives true exactly when  *)
(* the text is "true" in any case; a string, null or a missing key gives   *)
(* the text unchanged.                                                     *)
(***************************************************************************)
C33_CommitCoercesByOriginal ==
    [][InlineCommit =>
          LET row == data[editingCell.row + 1]
              col == editingCell.col
              original == IF col \in DOMAIN row THEN <<row[col]>> ELSE <<>>
          IN  /\ col \in DOMAIN data'[editingCell.row + 1]
              /\ data'[editingCell.row + 1][col] =
                    CoercedEdit(original, lastArg'.typed)]_vars

\* "True" typed into a boolean cell was committed as true
C33_Witness ==
    /\ lastEvent \in {"inputKey", "inputBlur"}
    /\ lastArg.typed = <<"T", "r", "u", "e">>
    /\ trail[Len(trail)].changed
    /\ \E i \in DOMAIN data : \E c \in DOMAIN data[i] : data[i][c] = Bool(TRUE)

\* the objects with entries e and f have the same keys and, under each key,
\* the same leaf or, recursively, the same object
RECURSIVE SameObject(_, _)
SameObject(e, f) ==
    /\ {e[i].key : i \in DOMAIN e} = {f[i].key : i \in DOMAIN f}
    /\ Len(e) = Len(f)
    /\ \A i \in DOMAIN e :
          LET v == e[i].value
              w == valueOf(f, e[i].key)
          IN  IF v.t = "object" /\ w.t = "object" THEN SameObject(v.v, w.v)
              ELSE v = w

(***************************************************************************)
(* C34. unflattenObject(flattenObject(o)) is o again for every object o    *)
(* whose keys hold no dot, with sub-objects of any depth and any number of *)
(* keys, none included, and arrays, primitives and null kept as leaves.    *)
(***************************************************************************)
C34_FlattenRoundTrip ==
    lastEvent = "unflatten" =>
        /\ message # "threw"
        /\ SameObject(entriesOf(data[1]), entriesOf(storage.rows[1]))

\* the Column Set, the Schema and the sort state are what they were
TableFrameKept ==
    /\ columns' = columns
    /\ schema' = schema
    /\ sortConfig' = sortConfig

(***************************************************************************)
(* C35. A row operation touches only its target. updateCell(i, c, v) gives *)
(* the same rows with key c of row i holding v and every other key and row *)
(* as before; deleteRow(i) gives the rows before i unchanged followed by   *)
(* the rows after i, each one place lower; addRow gives the same rows      *)
(* followed by one new row. The Column Set, the Schema and the sort state  *)
(* are unchanged by all three.                                             *)
(***************************************************************************)
C35_RowOpsTouchTarget ==
    [][/\ lastEvent' = "updateCell" =>
             LET i == lastArg'.cell.row
                 c == lastArg'.cell.col
             IN  /\ Len(data') = Len(data)
                 /\ \A j \in DOMAIN data : j # i => data'[j] = data[j]
                 /\ DOMAIN data'[i] = DOMAIN data[i] \cup {c}
                 /\ data'[i][c] = lastArg'.val
                 /\ \A k \in DOMAIN data[i] : k # c => data'[i][k] = data[i][k]
                 /\ TableFrameKept
       /\ lastEvent' = "deleteRow" =>
             LET i == lastArg'.cell.row
             IN  /\ Len(data') = Len(data) - 1
                 /\ \A j \in DOMAIN data' :
                       data'[j] = IF j < i THEN data[j] ELSE data[j + 1]
                 /\ TableFrameKept
       /\ lastEvent' = "addRow" =>
             /\ Len(data') = Len(data) + 1
             /\ \A j \in DOMAIN data : data'[j] = data[j]
             /\ TableFrameKept]_vars

\* a row that was not the last one was deleted from a sorted table and left
\* rows behind
C35_Witness ==
    /\ lastEvent = "deleteRow"
    /\ lastArg.cell.row = 1
    /\ Len(data) >= 1
    /\ sortConfig # NoSort

\* the step is a write-back of the overlay on a cell of the table: an edit
\* in it or in the overlay above it, handed to updateCell for that cell
OverlayWriteBack ==
    /\ nested # NoModal
    /\ nested.rowIdx >= 0
    /\ \/ /\ lastEvent' = "nestedKey"
          /\ lastArg'.key = "Enter"
          /\ topFrame.editingCell # NoEdit
       \/ lastEvent' = "nestedDeleteRow"

\* row is the row the overlay was opened on: it holds, outside the column
\* of the overlay, what that row held when the overlay was opened
IsOpenedRow(row) ==
    /\ track.opened # <<>>
    /\ DOMAIN row \cup {nested.col} = DOMAIN track.opened[1] \cup {nested.col}
    /\ \A k \in DOMAIN row \ {nested.col} : row[k] = track.opened[1][k]

(***************************************************************************)
(* C36. A write-back of an overlay never lands on a stale index: when the  *)
(* overlay hands its value to updateCell(parentRow, parentCol, v), the     *)
(* table has a row at parentRow and it is the row the overlay was opened   *)
(* on, whatever undo, redo or other change of the rows happened while the  *)
(* overlay was open.                                                       *)
(***************************************************************************)
C36_WriteBackIndexFresh ==
    [][OverlayWriteBack =>
          /\ nested.rowIdx < Len(data)
          /\ IsOpenedRow(data[nested.rowIdx + 1])]_vars

(***************************************************************************)
(* C37. After every event, a grid in the state Editing(row, colName) has   *)
(* a row at index row and colName in its Column Set: no event, undo and    *)
(* redo by shortcut included, leaves an edit open on a cell that is gone.  *)
(***************************************************************************)
C37_EditingCellExists ==
    (GridShown /\ editingCell # NoEdit) =>
        /\ editingCell.row < Len(data)
        /\ includes(columns, editingCell.col)

(***************************************************************************)
(* C38. In every reachable state every key of every row is a name of the   *)
(* Column Set; column add, rename and delete, row edits, quick-add, undo   *)
(* and redo keep it so.                                                    *)
(***************************************************************************)
C38_RowKeysInColumns ==
    \A i \in DOMAIN data : \A k \in DOMAIN data[i] : includes(columns, k)

(***************************************************************************)
(* C39. Edits made in an overlay opened from the quick-add footer, for a   *)
(* row that is not added yet, are stored only in the footer's pending      *)
(* values: they change neither the rows nor the history and call no        *)
(* updateCell. The rows change only when the row is added, by exactly one  *)
(* appended row that holds the pending data, and Enter in a footer with no *)
(* value entered adds nothing.                                             *)
(***************************************************************************)
FooterOverlayOpen == nested # NoModal /\ nested.onSave

OverlayEvents ==
    {"nestedAddRow", "nestedKey", "nestedStartEdit", "nestedDeleteRow",
     "closeNested"}

FooterEvents ==
    {"footerInput", "footerCommand", "footerKey", "footerRemove",
     "footerEdit"}

\* some column of the grid has a typed text or saved data pending
ValueEntered ==
    \E i \in DOMAIN columns :
        /\ columns[i] \in DOMAIN footer.values
        /\ \/ footer.values[columns[i]].text # <<>>
           \/ footer.values[columns[i]].data # <<>>

EnterInFooter == lastEvent' = "footerKey" /\ lastArg'.key = "Enter"

C40_ClampTerminates == [](EffectsDue => <>~EffectsDue)

====
